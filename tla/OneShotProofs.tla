--------------------------- MODULE OneShotProofs ----------------------------
(***************************************************************************)
(* Proofs about a whole one-shot transfer: client, connections and server  *)
(* session together, for any number of paths, any payload, chunk size,     *)
(* window and queue capacity, every scheduler and, where not said          *)
(* otherwise, any faults.                                                  *)
(***************************************************************************)
EXTENDS OneShot, ServerSessionProofs

-----------------------------------------------------------------------------
\* The inductive invariant, in parts.

\* Every chunk that was handed out has left the queues and the writers' hands.
AllWritten == qClosed /\ \A p \in Paths : queue[p] = << >> /\ cur[p] = NoChunk

\* A writer returns only from an empty queue that nobody fills again.
WriterInv ==
    \A p \in Paths \ writers : qClosed /\ queue[p] = << >> /\ cur[p] = NoChunk

\* What main has done is what its phase says: it dials, then greets, then
\* sends, and drains a path only after every writer has returned.
PhaseInv ==
    /\ cpc = "dial" => \A p \in Paths :
          /\ preamble[p] = "none"
          /\ p >= ci => hpc[p] = "none" /\ ~cUp[p] /\ ~sUp[p]
    /\ cpc = "hello" => \A p \in Paths : preamble[p] = "none" <=> p >= ci
    /\ cpc \in {"send", "drain", "exit"} => \A p \in Paths : preamble[p] # "none"
    /\ cpc \in {"dial", "hello", "fatal"} =>
          /\ next = 0 /\ targets = << >> /\ ~qClosed
          /\ \A p \in Paths : queue[p] = << >> /\ cur[p] = NoChunk
    /\ cpc \in {"drain", "exit"} => AllWritten
    /\ qClosed => targets = << >> /\ next = ChunkCount
    /\ \A p \in Paths : drain[p] # "none" => cpc \in {"drain", "exit"}
    /\ \A p \in Paths : fin[p] => drain[p] # "none"

\* The ack at the end of a chain: the client closed the stream, the handler
\* read it to its end, counted the path and wrote the ack.
AckInv ==
    \A p \in Paths :
        /\ readErr[p] = "EOF" => fin[p] /\ up[p] = << >>
        /\ readErr[p] = "none" <=> hpc[p] \in Early \cup {"read", "log"}
        /\ hpc[p] = "acked" => readErr[p] = "EOF"
        /\ ack[p] => hpc[p] = "acked"
        /\ drain[p] = "acked" => ack[p]

BytesIn(s) == SumOver(1..Len(s), [i \in 1..Len(s) |-> ChunkLen(s[i])])

\* What a writer has counted is either counted by the handler or in flight.
StreamInv ==
    \A p \in Paths :
        /\ chunks[p] + Len(up[p]) = chunksSent[p]
        /\ bytesReceived[p] + BytesIn(up[p]) = bytesSent[p]

\* The scheduler puts a chunk on a path at most once.
OnceInv ==
    /\ targets # << >> => next > 0
    /\ \A i, j \in 1..Len(targets) : targets[i] = targets[j] => i = j
    /\ \A p \in Paths :
          chunksSent[p] + Len(queue[p]) + (IF cur[p] = NoChunk THEN 0 ELSE 1)
              + (IF p \in Elems(targets) THEN 1 ELSE 0) <= next

\* A path that died before it was acked; it never comes back.
Broken(p) == drain[p] # "acked" /\ ~cUp[p]

\* Path p has answered for chunk c: it is on its way, or in the reassembler,
\* or the path is one that the ack and the corrupted count tell apart.
Carries(p, c) ==
    \/ c = next - 1 /\ p \in Elems(targets)
    \/ c \in Elems(queue[p])
    \/ c = cur[p]
    \/ c \in Elems(up[p])
    \/ c \in DOMAIN received /\ received[c]
    \/ corrupted[p] > 0
    \/ Broken(p)

\* No chunk is dropped without a trace.
CarryInv ==
    /\ \A c \in 0..(next - 1) : \E p \in Paths : Carries(p, c)
    /\ sched = "redundant" => \A c \in 0..(next - 1) : \A p \in Paths : Carries(p, c)

TransferInv ==
    /\ SessionInv /\ NilInv
    /\ ClientTypeOK
    /\ PhaseInv
    /\ AckInv
    /\ StreamInv
    /\ OnceInv
    /\ CarryInv

\* Without faults no connection dies before main has seen every ack.
CleanInv ==
    /\ cpc # "fatal"
    /\ \A p \in Paths :
          /\ drain[p] # "gaveup" /\ readErr[p] # "err" /\ corrupted[p] = 0
          /\ hpc[p] \notin {"aborted", "closed"}
          /\ cpc # "exit" /\ (cpc = "dial" => p < ci) => cUp[p] /\ sUp[p]
          /\ cpc = "exit" => drain[p] = "acked"

-----------------------------------------------------------------------------
\* The chunks in a queue or a stream.

\* The bytes in flight grow by a chunk written ...
LEMMA BytesAppend ==
    ASSUME NEW s \in Seq(SplitSeqs), NEW e \in SplitSeqs
    PROVE  BytesIn(s) \in Nat /\ BytesIn(Append(s, e)) = BytesIn(s) + ChunkLen(e)
<1> DEFINE t == Append(s, e)
           f == [i \in 1..Len(s) |-> ChunkLen(s[i])]
           g == [i \in 1..Len(t) |-> ChunkLen(t[i])]
<1>1. /\ Len(s) \in Nat /\ Len(t) = Len(s) + 1 /\ t[Len(s) + 1] = e
      /\ \A i \in 1..Len(s) : t[i] = s[i] /\ s[i] \in SplitSeqs
  OBVIOUS
<1>2. \A c \in SplitSeqs : ChunkLen(c) \in Nat
  BY ChunkBytes
<1>3. IsFiniteSet(1..Len(s)) /\ Len(s) + 1 \notin 1..Len(s)
      /\ 1..Len(t) = (1..Len(s)) \cup {Len(s) + 1}
  <2>1. 1 \in Int /\ Len(s) \in Int
    BY <1>1
  <2>2. IsFiniteSet(1..Len(s))
    BY <2>1, FS_Interval
  <2> QED BY <1>1, <2>2, SMT
<1> HIDE DEF t
<1>4. g[Len(s) + 1] = ChunkLen(e) /\ (\A i \in 1..Len(s) : g[i] = f[i] /\ f[i] \in Nat)
  BY <1>1, <1>2, SMT
<1> HIDE DEF f, g
<1> DEFINE S == 1..Len(s)
           y == Len(s) + 1
<1>5. SumOver(S \cup {y}, g) = SumOver(S, g) + g[y]
  <2>1. IsFiniteSet(S) /\ y \notin S /\ (\A x \in S : g[x] \in Nat) /\ g[y] \in Nat
    BY <1>2, <1>3, <1>4
  <2> HIDE DEF S, y
  <2> QED BY <2>1, SumAdd
<1>6. SumOver(1..Len(s), g) = SumOver(1..Len(s), f)
  BY <1>4, SumSame
<1>7. SumOver(1..Len(s), f) \in Nat
  BY <1>3, <1>4, SumFinite
<1> QED BY <1>3, <1>4, <1>5, <1>6, <1>7 DEF BytesIn, f, g, t

\* ... and shrink by a chunk read.
LEMMA BytesTail ==
    ASSUME NEW s \in Seq(SplitSeqs), s # << >>
    PROVE  BytesIn(Tail(s)) \in Nat /\ BytesIn(s) = BytesIn(Tail(s)) + ChunkLen(Head(s))
<1> DEFINE t == Tail(s)
           f == [i \in 1..Len(s) |-> ChunkLen(s[i])]
           g == [i \in 1..Len(t) |-> ChunkLen(t[i])]
           R == 2..Len(s)
           h == [i \in 1..Len(t) |-> i + 1]
<1>1. /\ Len(s) \in Nat \ {0} /\ Len(t) = Len(s) - 1 /\ Len(t) \in Nat
      /\ Head(s) = s[1] /\ s[1] \in SplitSeqs
      /\ \A i \in 1..Len(t) : t[i] = s[i + 1] /\ t[i] \in SplitSeqs
  BY TailFacts, SMT
<1>2. \A c \in SplitSeqs : ChunkLen(c) \in Nat
  BY ChunkBytes
<1> HIDE DEF t
<1>3. IsFiniteSet(1..Len(t)) /\ IsFiniteSet(R)
  <2>1. 1 \in Int /\ 2 \in Int /\ Len(s) \in Int /\ Len(t) \in Int
    BY <1>1
  <2> QED BY <2>1, FS_Interval
<1>4. h \in Bijection(1..Len(t), R)
  <2>1. h \in [1..Len(t) -> R]
    BY <1>1, SMT
  <2>2. \A i, j \in 1..Len(t) : h[i] = h[j] => i = j
    BY SMT
  <2>3. ASSUME NEW k \in R PROVE \E i \in 1..Len(t) : h[i] = k
    <3>1. k - 1 \in 1..Len(t) /\ h[k - 1] = k
      BY <1>1, SMT
    <3> QED BY <3>1
  <2> QED BY <2>1, <2>2, <2>3 DEF Bijection, Injection, Surjection, IsInjective
<1>5. /\ \A i \in 1..Len(t) : g[i] \in Nat /\ f[h[i]] = g[i]
      /\ f[1] = ChunkLen(Head(s)) /\ f[1] \in Nat
  BY <1>1, <1>2, SMT
<1>6. 1..Len(s) = R \cup {1} /\ 1 \notin R
  BY <1>1, SMT
<1>7. \A k \in R : f[k] \in Nat
  <2> TAKE k \in R
  <2>1. k \in 1..Len(s)
    BY <1>6
  <2> QED BY <2>1, <1>2
<1> HIDE DEF f, g, h, R
<1>8. SumOver(R, f) = SumOver(1..Len(t), g)
  BY <1>3, <1>4, <1>5, SumRename
<1>9. SumOver(R \cup {1}, f) = SumOver(R, f) + f[1]
  BY <1>3, <1>5, <1>6, <1>7, SumAdd
<1>10. SumOver(1..Len(t), g) \in Nat
  BY <1>3, <1>5, SumFinite
<1> QED BY <1>5, <1>6, <1>8, <1>9, <1>10 DEF BytesIn, f, g, t

-----------------------------------------------------------------------------
\* The client's steps.

\* The types, in the form the steps need them.
LEMMA TransferTypes ==
    ASSUME SessionInv, ClientTypeOK
    PROVE  /\ preamble \in [Paths -> {"none", "sent", "read"}]
           /\ up \in [Paths -> Seq(SplitSeqs)] /\ \A p \in Paths : Len(up[p]) <= Window
           /\ fin \in [Paths -> BOOLEAN] /\ ack \in [Paths -> BOOLEAN]
           /\ cUp \in [Paths -> BOOLEAN] /\ sUp \in [Paths -> BOOLEAN]
           /\ hpc \in [Paths -> Handlers]
           /\ chunks \in [Paths -> Nat] /\ corrupted \in [Paths -> Nat]
           /\ bytesReceived \in [Paths -> Nat]
           /\ readErr \in [Paths -> {"none", "EOF", "err"}]
           /\ sched \in SchedulerNames /\ n \in Nat /\ next \in 0..ChunkCount /\ next \in Nat
           /\ targets \in Seq(Paths) /\ queue \in [Paths -> Seq(SplitSeqs)]
           /\ cur \in [Paths -> SplitSeqs \cup {NoChunk}]
           /\ chunksSent \in [Paths -> Nat] /\ bytesSent \in [Paths -> Nat]
           /\ drain \in [Paths -> {"none", "wait", "acked", "gaveup"}]
           /\ ci \in Paths /\ ChunkCount \in Nat \ {0}
           /\ SplitSeqs = 0..(ChunkCount - 1) /\ NoChunk \notin SplitSeqs
<1>1. ChunkCount = NumChunks
  BY DEF ChunkCount, NumChunks
<1>2. ChunkCount \in Nat \ {0} /\ SplitSeqs = 0..(ChunkCount - 1)
  BY <1>1, ChunkNumbers
<1>3. NoChunk \notin SplitSeqs
  BY <1>2, SMT DEF NoChunk
<1>4. QuicTypeOK(SplitSeqs)
  BY DEF SessionInv, ServerTypeOK
<1>5. /\ hpc \in [Paths -> Handlers]
      /\ chunks \in [Paths -> Nat] /\ corrupted \in [Paths -> Nat]
      /\ bytesReceived \in [Paths -> Nat]
      /\ readErr \in [Paths -> {"none", "EOF", "err"}]
  BY DEF SessionInv, ServerTypeOK
<1>6. ChunkCount - 1 + 1 = ChunkCount
  BY <1>2, SMT
<1>7. SendTypeOK(ChunkCount - 1) /\ ci \in Paths
  BY DEF ClientTypeOK
<1>8. /\ sched \in SchedulerNames /\ n \in Nat /\ next \in 0..ChunkCount
      /\ targets \in Seq(Paths) /\ queue \in [Paths -> Seq(SplitSeqs)]
      /\ cur \in [Paths -> SplitSeqs \cup {NoChunk}]
      /\ chunksSent \in [Paths -> Nat] /\ bytesSent \in [Paths -> Nat]
      /\ drain \in [Paths -> {"none", "wait", "acked", "gaveup"}]
  BY <1>2, <1>6, <1>7, SendAssumption, Zenon DEF SendTypeOK
<1>9. next \in Nat
  BY <1>2, <1>8, SMT
<1> QED BY <1>2, <1>3, <1>4, <1>5, <1>7, <1>8, <1>9, Zenon DEF QuicTypeOK

\* The session's invariant does not depend on what the client does with its
\* end of a connection.
LEMMA ClientKeepsSession ==
    ASSUME SessionInv, NilInv, UNCHANGED <<svars, rvars>>,
           NEW p \in Paths, QuicStep(p) \/ UNCHANGED qvars
    PROVE  SessionInv' /\ NilInv'
<1>1. QuicTypeOK(SplitSeqs)
  BY DEF SessionInv, ServerTypeOK
<1>2. QuicTypeOK(SplitSeqs)'
  BY <1>1, QuicTypes
<1>3. SessionInv'
  BY <1>2, PeerPreserves
<1>4. NilInv'
  BY DEF NilInv, svars, rvars
<1> QED BY <1>3, <1>4

\* A step that hands out no new chunk only has to keep track of the old ones.
LEMMA CarryStep ==
    ASSUME CarryInv, next' = next, sched' = sched,
           \A p \in Paths, c \in 0..(next - 1) : Carries(p, c) => Carries(p, c)'
    PROVE  CarryInv'
<1> HIDE DEF Carries
<1> QED BY DEF CarryInv

\* The loops over the paths in main: the index moves on or starts again.
LEMMA AdvanceFacts ==
    ASSUME ci \in Paths, NEW phase, Advance(phase)
    PROVE  \/ /\ ci + 1 < NumPaths /\ ci' = ci + 1 /\ cpc' = cpc
           \/ /\ ci + 1 = NumPaths /\ ci' = 0 /\ cpc' = phase
<1>1. ci \in 0..(NumPaths - 1) /\ NumPaths \in Nat \ {0}
  BY PathAssumption DEF Paths
<1>2. ci + 1 < NumPaths => (ci + 1) % NumPaths = ci + 1
  <2> SUFFICES ASSUME ci + 1 < NumPaths PROVE (ci + 1) % NumPaths = ci + 1
    OBVIOUS
  <2>1. 0 * NumPaths <= ci + 1 /\ ci + 1 < 0 * NumPaths + NumPaths /\ ci + 1 \in Nat /\ 0 \in Nat
    BY <1>1, SMT
  <2>2. (ci + 1) \div NumPaths = 0
    BY <1>1, <2>1, DivUnique
  <2> QED BY <1>1, <2>1, <2>2, SMT
<1>3. ci + 1 = NumPaths => (ci + 1) % NumPaths = 0
  <2> SUFFICES ASSUME ci + 1 = NumPaths PROVE NumPaths % NumPaths = 0
    OBVIOUS
  <2>1. 1 * NumPaths <= NumPaths /\ NumPaths < 1 * NumPaths + NumPaths /\ 1 \in Nat /\ NumPaths \in Nat
    BY <1>1, SMT
  <2>2. NumPaths \div NumPaths = 1
    BY <1>1, <2>1, DivUnique
  <2> QED BY <1>1, <2>2, SMT
<1> QED BY <1>1, <1>2, <1>3, SMT DEF Advance

\* Dialling a path.
LEMMA DialKeeps ==
    ASSUME TransferInv, DialPath, UNCHANGED <<svars, rvars>>
    PROVE  TransferInv'
<1>0. SessionInv /\ NilInv /\ ClientTypeOK /\ PhaseInv /\ AckInv /\ StreamInv
      /\ OnceInv /\ CarryInv /\ ci \in Paths
  BY DEF TransferInv, ClientTypeOK
<1>1. /\ Dial(ci) /\ cpc = "dial" /\ UNCHANGED sendvars
      /\ \/ ci + 1 < NumPaths /\ ci' = ci + 1 /\ cpc' = cpc
         \/ ci + 1 = NumPaths /\ ci' = 0 /\ cpc' = "hello"
  BY <1>0, AdvanceFacts DEF DialPath
<1>2. SessionInv' /\ NilInv'
  BY <1>0, <1>1, ClientKeepsSession DEF QuicStep
<1>3. ClientTypeOK'
  <2>1. ci' \in Paths
    BY <1>0, <1>1, PathAssumption, SMT DEF Paths
  <2> QED BY <1>0, <1>1, <2>1 DEF ClientTypeOK, SendTypeOK, sendvars, batchvars, countvars
<1>4. PhaseInv'
  <2>1. \A p \in Paths : p \in 0..(NumPaths - 1)
    BY DEF Paths
  <2>2. /\ cUp \in [Paths -> BOOLEAN] /\ sUp \in [Paths -> BOOLEAN]
        /\ cUp' = [cUp EXCEPT ![ci] = TRUE] /\ sUp' = [sUp EXCEPT ![ci] = TRUE]
        /\ UNCHANGED <<hpc, preamble, fin, next, targets, qClosed, queue, cur, drain>>
    BY <1>0, <1>1, TransferTypes DEF Dial, sendvars, batchvars, svars
  <2>3. ASSUME cpc' = "dial", NEW p \in Paths, p >= ci'
        PROVE  hpc'[p] = "none" /\ ~cUp'[p] /\ ~sUp'[p]
    <3>1. p # ci /\ p >= ci
      BY <1>0, <1>1, <2>1, <2>3, SMT
    <3> QED BY <1>0, <1>1, <2>2, <3>1 DEF PhaseInv
  <2>4. ASSUME NEW p \in Paths PROVE preamble'[p] = "none"
    BY <1>0, <1>1, <2>2 DEF PhaseInv
  <2>5. ASSUME cpc' = "hello", NEW p \in Paths PROVE p >= ci'
    BY <1>1, <2>1, <2>5, SMT
  <2> QED BY <1>0, <1>1, <2>2, <2>3, <2>4, <2>5 DEF PhaseInv
<1>5. AckInv' /\ StreamInv' /\ OnceInv'
  BY <1>0, <1>1 DEF AckInv, StreamInv, OnceInv, Dial, svars, sendvars, batchvars, countvars
<1>6. CarryInv'
  BY <1>0, <1>1, SMT DEF PhaseInv, CarryInv, sendvars, batchvars
<1> QED BY <1>2, <1>3, <1>4, <1>5, <1>6 DEF TransferInv

\* log.Fatalf, before any chunk was handed out.
LEMMA FatalKeeps ==
    ASSUME TransferInv, Fatal, cpc \in {"dial", "hello"}, UNCHANGED <<svars, rvars>>
    PROVE  TransferInv'
<1>0. SessionInv /\ NilInv /\ ClientTypeOK /\ PhaseInv /\ AckInv /\ StreamInv
      /\ OnceInv /\ CarryInv /\ 0 \in Paths
  BY PathAssumption DEF TransferInv, Paths
<1>1. SessionInv' /\ NilInv'
  BY <1>0, ClientKeepsSession DEF QuicStep, Fatal
<1>2. ClientTypeOK'
  BY <1>0 DEF Fatal, ClientTypeOK, SendTypeOK, sendvars, batchvars, countvars
<1>3. PhaseInv'
  BY <1>0 DEF Fatal, ClientCloseAll, PhaseInv, svars, sendvars, batchvars
<1>4. AckInv' /\ StreamInv' /\ OnceInv'
  BY <1>0 DEF Fatal, AckInv, StreamInv, OnceInv, ClientCloseAll, svars, sendvars,
      batchvars, countvars
<1>5. CarryInv'
  BY <1>0, SMT DEF Fatal, PhaseInv, CarryInv, sendvars, batchvars
<1> QED BY <1>1, <1>2, <1>3, <1>4, <1>5 DEF TransferInv

\* Greeting a path.
LEMMA PreambleKeeps ==
    ASSUME TransferInv, WritePreamble, UNCHANGED <<svars, rvars>>
    PROVE  TransferInv'
<1>0. SessionInv /\ NilInv /\ ClientTypeOK /\ PhaseInv /\ AckInv /\ StreamInv
      /\ OnceInv /\ CarryInv /\ ci \in Paths
  BY DEF TransferInv, ClientTypeOK
<1>1. /\ SendPreamble(ci) /\ cpc = "hello" /\ UNCHANGED sendvars
      /\ \/ ci + 1 < NumPaths /\ ci' = ci + 1 /\ cpc' = cpc
         \/ ci + 1 = NumPaths /\ ci' = 0 /\ cpc' = "send"
  BY <1>0, AdvanceFacts DEF WritePreamble
<1>2. SessionInv' /\ NilInv'
  BY <1>0, <1>1, ClientKeepsSession DEF QuicStep
<1>3. ClientTypeOK'
  <2>1. ci' \in Paths
    BY <1>0, <1>1, PathAssumption, SMT DEF Paths
  <2> QED BY <1>0, <1>1, <2>1 DEF ClientTypeOK, SendTypeOK, sendvars, batchvars, countvars
<1>4. PhaseInv'
  <2>1. \A p \in Paths : p \in 0..(NumPaths - 1)
    BY DEF Paths
  <2>2. /\ preamble \in [Paths -> {"none", "sent", "read"}]
        /\ preamble' = [preamble EXCEPT ![ci] = "sent"]
        /\ UNCHANGED <<fin, next, targets, qClosed, queue, cur, drain>>
    BY <1>0, <1>1, TransferTypes DEF SendPreamble, sendvars, batchvars
  <2>3. ASSUME NEW p \in Paths PROVE preamble'[p] = "none" <=> p >= ci + 1
    <3>1. CASE p = ci
      BY <2>1, <2>2, <3>1, SMT
    <3>2. CASE p # ci
      <4>1. preamble'[p] = preamble[p] /\ (preamble[p] = "none" <=> p >= ci)
        BY <1>0, <1>1, <2>2, <3>2 DEF PhaseInv
      <4>2. p >= ci <=> p >= ci + 1
        BY <1>0, <2>1, <3>2, SMT
      <4> QED BY <4>1, <4>2
    <3> QED BY <3>1, <3>2
  <2>4. ASSUME cpc' = "send", NEW p \in Paths PROVE preamble'[p] # "none"
    <3>1. ~(p >= ci + 1)
      BY <1>0, <1>1, <2>1, <2>4, SMT
    <3> QED BY <2>3, <3>1
  <2>5. cpc' = "hello" => ci' = ci + 1
    BY <1>1
  <2> QED BY <1>0, <1>1, <2>2, <2>3, <2>4, <2>5 DEF PhaseInv
<1>5. AckInv' /\ StreamInv' /\ OnceInv'
  BY <1>0, <1>1 DEF AckInv, StreamInv, OnceInv, SendPreamble, svars, sendvars,
      batchvars, countvars
<1>6. CarryInv'
  BY <1>0, <1>1, SMT DEF PhaseInv, CarryInv, sendvars, batchvars
<1> QED BY <1>2, <1>3, <1>4, <1>5, <1>6 DEF TransferInv

\* Whatever scheduler is used: a chunk goes to at least one path, to none
\* twice, and with redundant to all of them.
LEMMA AssignFacts ==
    ASSUME NEW name \in SchedulerNames, NEW k \in Nat, NEW r \in [Paths -> RTTs]
    PROVE  /\ Assign(name, k, r) \in Seq(Paths) /\ Assign(name, k, r) # << >>
           /\ \A i, j \in 1..Len(Assign(name, k, r)) :
                 Assign(name, k, r)[i] = Assign(name, k, r)[j] => i = j
           /\ name = "redundant" => Elems(Assign(name, k, r)) = Paths
           /\ Counter(name, k, r) \in Nat
<1>1. Counter(name, k, r) \in Nat
  BY DEF Counter
<1>2. k % NumPaths \in Paths
  BY PathAssumption, NextRemainder DEF Paths
<1>3. ASSUME Measured(r) # {} PROVE Best(r) \in Paths
  <2> DEFINE M == Measured(r)
  <2>1. M \subseteq Nat /\ M \subseteq Paths /\ \A p \in M : r[p] \in Nat
    BY DEF Measured, Paths, RTTs
  <2>2. \E p \in M : \A q \in M : r[p] < r[q] \/ (r[p] = r[q] /\ p <= q)
    BY <1>3, <2>1, FirstLeast
  <2> QED BY <2>1, <2>2 DEF Best
<1>4. ASSUME NEW p \in Paths
      PROVE  /\ << p >> \in Seq(Paths) /\ << p >> # << >> /\ Len(<< p >>) = 1
             /\ \A i, j \in 1..Len(<< p >>) : << p >>[i] = << p >>[j] => i = j
  BY SMT
<1>5. /\ Redundant \in Seq(Paths) /\ Redundant # << >>
      /\ \A i, j \in 1..Len(Redundant) : Redundant[i] = Redundant[j] => i = j
      /\ Elems(Redundant) = Paths
  <2>1. /\ NumPaths \in Nat \ {0}
        /\ \A i \in 1..NumPaths : i - 1 \in Paths
        /\ \A p \in Paths : p + 1 \in 1..NumPaths /\ p = (p + 1) - 1
    BY PathAssumption, SMT DEF Paths
  <2>2. /\ Redundant \in Seq(Paths) /\ Len(Redundant) = NumPaths
        /\ \A i \in 1..NumPaths : Redundant[i] = i - 1
    BY <2>1 DEF Redundant
  <2>3. Redundant # << >> /\ \A i, j \in 1..Len(Redundant) : Redundant[i] = Redundant[j] => i = j
    BY <2>1, <2>2, SMT
  <2>4. Elems(Redundant) = Paths
    BY <2>1, <2>2 DEF Elems
  <2> QED BY <2>2, <2>3, <2>4
<1>6. CASE name = "roundrobin"
  BY <1>1, <1>2, <1>4, <1>6, Zenon DEF Assign, RoundRobin
<1>7. CASE name = "redundant"
  BY <1>1, <1>5, <1>7, Zenon DEF Assign
<1>8. CASE name = "rtt-aware"
  <2>1. Assign(name, k, r) = RTTAware(k, r)
    BY <1>8, Zenon DEF Assign
  <2>2. \E p \in Paths : RTTAware(k, r) = << p >>
    BY <1>2, <1>3 DEF RTTAware, RoundRobin
  <2>3. PICK p \in Paths : Assign(name, k, r) = << p >>
    BY <2>1, <2>2
  <2>4. name # "redundant"
    BY <1>8
  <2> QED BY <1>1, <1>4, <2>3, <2>4
<1> QED BY <1>6, <1>7, <1>8 DEF SchedulerNames

\* The dispatcher asks the scheduler for the next chunk.
LEMMA AssignKeeps ==
    ASSUME TransferInv, cpc = "send", AssignChunk(ChunkCount), UNCHANGED <<cpc, ci>>,
           UNCHANGED <<svars, rvars>>
    PROVE  TransferInv'
<1>0. SessionInv /\ NilInv /\ ClientTypeOK /\ PhaseInv /\ AckInv /\ StreamInv
      /\ OnceInv /\ CarryInv /\ 0 \in Paths
  BY PathAssumption DEF TransferInv, Paths
<1>1. /\ targets = << >> /\ next < ChunkCount /\ next' = next + 1
      /\ UNCHANGED <<sched, queue, qClosed, writers, cur, countvars, drain, qvars>>
  BY DEF AssignChunk
<1>2. PICK r \in [Paths -> RTTs] :
          targets' = Assign(sched, n, r) /\ n' = Counter(sched, n, r)
  BY DEF AssignChunk
<1>t. sched \in SchedulerNames /\ n \in Nat /\ next \in Nat /\ ChunkCount \in Nat
  BY <1>0, TransferTypes
<1>3. /\ targets' \in Seq(Paths) /\ targets' # << >>
      /\ \A i, j \in 1..Len(targets') : targets'[i] = targets'[j] => i = j
      /\ sched = "redundant" => Elems(targets') = Paths
      /\ n' \in Nat
  BY <1>2, <1>t, AssignFacts
<1>4. SessionInv' /\ NilInv'
  BY <1>0, <1>1, ClientKeepsSession
<1>5. ClientTypeOK'
  <2>1. next' \in 0..(ChunkCount - 1 + 1)
    BY <1>1, <1>t, SMT
  <2> QED BY <1>0, <1>1, <1>3, <2>1 DEF ClientTypeOK, SendTypeOK, countvars
<1>6. PhaseInv'
  <2>1. ~qClosed
    BY <1>0, <1>1, <1>t, SMT DEF PhaseInv
  <2> QED BY <1>0, <1>1, <2>1 DEF PhaseInv, qvars, svars
<1>7. AckInv' /\ StreamInv'
  BY <1>0, <1>1 DEF AckInv, StreamInv, svars, qvars, countvars
<1>8. OnceInv'
  <2>1. Elems(targets) = {}
    BY <1>1, NoElems
  <2>2. ASSUME NEW p \in Paths
        PROVE  chunksSent'[p] + Len(queue'[p]) + (IF cur'[p] = NoChunk THEN 0 ELSE 1)
                 + (IF p \in Elems(targets)' THEN 1 ELSE 0) <= next'
    <3>1. /\ chunksSent[p] \in Nat /\ Len(queue[p]) \in Nat
          /\ chunksSent[p] + Len(queue[p]) + (IF cur[p] = NoChunk THEN 0 ELSE 1) + 0 <= next
      BY <1>0, <2>1, TransferTypes DEF OnceInv
    <3> QED BY <1>1, <1>t, <3>1 DEF countvars
  <2>3. next' > 0
    BY <1>1, <1>t
  <2> QED BY <1>3, <2>2, <2>3 DEF OnceInv
<1>9. CarryInv'
  <2>1. ASSUME NEW p \in Paths, NEW c \in 0..(next - 1), Carries(p, c) PROVE Carries(p, c)'
    BY <1>1, <2>1, NoElems DEF Carries, Broken, qvars, svars, rvars
  <2>2. ASSUME NEW c \in Nat, c = next, NEW p \in Paths, p \in Elems(targets')
        PROVE  Carries(p, c)'
    BY <1>1, <1>t, <2>2 DEF Carries
  <2>3. 0..(next' - 1) = 0..(next - 1) \cup {next}
    BY <1>1, <1>t, SMT
  <2>4. \E p \in Paths : p \in Elems(targets')
    <3>1. Len(targets') \in Nat /\ Len(targets') # 0
      BY <1>3, SMT
    <3>2. 1 \in 1..Len(targets')
      BY <3>1, SMT
    <3>3. targets'[1] \in Paths
      BY <1>3, <3>2
    <3> QED BY <3>2, <3>3 DEF Elems
  <2>5. ASSUME NEW c \in 0..(next' - 1) PROVE \E p \in Paths : Carries(p, c)'
    <3>1. CASE c \in 0..(next - 1)
      <4>1. PICK p \in Paths : Carries(p, c)
        BY <1>0, <3>1 DEF CarryInv
      <4> QED BY <2>1, <3>1, <4>1
    <3>2. CASE c = next
      BY <1>t, <2>2, <2>4, <3>2
    <3> QED BY <2>3, <3>1, <3>2
  <2>6. ASSUME sched = "redundant", NEW c \in 0..(next' - 1), NEW p \in Paths
        PROVE  Carries(p, c)'
    <3>1. CASE c \in 0..(next - 1)
      BY <1>0, <2>1, <2>6, <3>1 DEF CarryInv
    <3>2. CASE c = next
      BY <1>3, <1>t, <2>2, <2>6, <3>2
    <3> QED BY <2>3, <3>1, <3>2
  <2> HIDE DEF Carries
  <2> QED BY <1>1, <2>5, <2>6 DEF CarryInv
<1> QED BY <1>4, <1>5, <1>6, <1>7, <1>8, <1>9 DEF TransferInv

\* The dispatcher puts the chunk on the queue of one of its paths.
LEMMA EnqueueKeeps ==
    ASSUME TransferInv, cpc = "send", Enqueue, UNCHANGED <<cpc, ci>>,
           UNCHANGED <<svars, rvars>>
    PROVE  TransferInv'
<1>0. SessionInv /\ NilInv /\ ClientTypeOK /\ PhaseInv /\ AckInv /\ StreamInv
      /\ OnceInv /\ CarryInv /\ 0 \in Paths
  BY PathAssumption DEF TransferInv, Paths
<1> DEFINE h == Head(targets)
           e == next - 1
<1>1. /\ targets # << >> /\ Len(queue[h]) < QueueCap
      /\ queue' = [queue EXCEPT ![h] = Append(@, e)]
      /\ targets' = Tail(targets)
      /\ UNCHANGED <<sched, n, next, qClosed, writers, cur, countvars, drain, qvars>>
  BY DEF Enqueue
<1>t. /\ queue \in [Paths -> Seq(SplitSeqs)] /\ targets \in Seq(Paths)
      /\ next \in 0..ChunkCount /\ SplitSeqs = 0..(ChunkCount - 1)
      /\ ChunkCount \in Nat /\ chunksSent \in [Paths -> Nat]
  BY <1>0, TransferTypes
<1>2. next > 0 /\ e \in SplitSeqs
  BY <1>0, <1>1, <1>t, SMT DEF OnceInv
<1>3. /\ h \in Paths /\ targets' \in Seq(Paths)
      /\ Len(targets) \in Nat \ {0} /\ Len(targets') = Len(targets) - 1
      /\ h = targets[1] /\ \A i \in 1..Len(targets') : targets'[i] = targets[i + 1]
      /\ Elems(targets) = {h} \cup Elems(targets')
  BY <1>1, <1>t, TailFacts
<1>4. h \notin Elems(targets')
  <2> SUFFICES ASSUME NEW i \in 1..Len(targets'), targets'[i] = h PROVE FALSE
    BY DEF Elems
  <2>1. i + 1 \in 1..Len(targets) /\ 1 \in 1..Len(targets) /\ targets[i + 1] = targets[1]
    BY <1>3, SMT
  <2>2. i + 1 = 1
    BY <1>0, <2>1 DEF OnceInv
  <2> QED BY <2>2, SMT
<1>5. /\ queue[h] \in Seq(SplitSeqs) /\ queue'[h] = Append(queue[h], e)
      /\ queue'[h] \in Seq(SplitSeqs) /\ Len(queue'[h]) = Len(queue[h]) + 1
      /\ Elems(queue'[h]) = Elems(queue[h]) \cup {e}
  <2>1. queue[h] \in Seq(SplitSeqs) /\ queue'[h] = Append(queue[h], e)
    BY <1>1, <1>3, <1>t
  <2> HIDE DEF e
  <2> QED BY <1>2, <2>1, AppendFacts
<1>6. /\ queue' \in [Paths -> Seq(SplitSeqs)]
      /\ \A p \in Paths \ {h} : queue'[p] = queue[p]
  BY <1>1, <1>5, <1>t
<1> HIDE DEF h, e
<1>7. SessionInv' /\ NilInv'
  BY <1>0, <1>1, ClientKeepsSession
<1>8. ClientTypeOK'
  <2>1. QueueCap \in Nat /\ Len(queue[h]) \in Nat
    BY <1>5, SendAssumption
  <2>2. \A p \in Paths : Len(queue'[p]) <= QueueCap
    <3> TAKE p \in Paths
    <3>1. CASE p = h
      BY <1>1, <1>5, <2>1, <3>1
    <3>2. CASE p # h
      BY <1>0, <1>6, <3>2 DEF ClientTypeOK, SendTypeOK
    <3> QED BY <3>1, <3>2
  <2>3. queue' \in [Paths -> Seq(0..(ChunkCount - 1))]
    BY <1>6, <1>t
  <2> QED BY <1>0, <1>1, <1>3, <2>2, <2>3 DEF ClientTypeOK, SendTypeOK, countvars
<1>9. PhaseInv'
  <2>1. ~qClosed
    BY <1>0, <1>1 DEF PhaseInv
  <2> QED BY <1>0, <1>1, <2>1 DEF PhaseInv, qvars, svars
<1>10. AckInv' /\ StreamInv'
  BY <1>0, <1>1 DEF AckInv, StreamInv, svars, qvars, countvars
<1>11. OnceInv'
  <2>1. \A i, j \in 1..Len(targets') : targets'[i] = targets'[j] => i = j
    <3> SUFFICES ASSUME NEW i \in 1..Len(targets'), NEW j \in 1..Len(targets'),
                        targets'[i] = targets'[j]
                 PROVE  i = j
      OBVIOUS
    <3>1. i + 1 \in 1..Len(targets) /\ j + 1 \in 1..Len(targets)
          /\ targets[i + 1] = targets[j + 1]
      BY <1>3, SMT
    <3>2. i + 1 = j + 1
      BY <1>0, <3>1 DEF OnceInv
    <3> QED BY <3>2, SMT
  <2>2. ASSUME NEW p \in Paths
        PROVE  chunksSent'[p] + Len(queue'[p]) + (IF cur'[p] = NoChunk THEN 0 ELSE 1)
                 + (IF p \in Elems(targets)' THEN 1 ELSE 0) <= next'
    <3>1. /\ chunksSent[p] \in Nat /\ Len(queue[p]) \in Nat
          /\ chunksSent[p] + Len(queue[p]) + (IF cur[p] = NoChunk THEN 0 ELSE 1)
               + (IF p \in Elems(targets) THEN 1 ELSE 0) <= next
      BY <1>0, <1>t DEF OnceInv
    <3>2. Elems(targets)' = Elems(targets')
      BY DEF Elems
    <3>3. CASE p = h
      <4>1. p \in Elems(targets) /\ p \notin Elems(targets')
        BY <1>3, <1>4, <3>3
      <4> QED BY <1>1, <1>5, <1>t, <3>1, <3>2, <3>3, <4>1 DEF countvars
    <3>4. CASE p # h
      <4>1. p \in Elems(targets) <=> p \in Elems(targets')
        BY <1>3, <3>4
      <4> QED BY <1>1, <1>6, <1>t, <3>1, <3>2, <3>4, <4>1 DEF countvars
    <3> QED BY <3>3, <3>4
  <2> QED BY <1>1, <1>2, <2>1, <2>2 DEF OnceInv
<1>12. CarryInv'
  <2>1. ASSUME NEW p \in Paths, NEW c \in 0..(next - 1), Carries(p, c) PROVE Carries(p, c)'
    <3>0. Elems(targets)' = Elems(targets') /\ \A q : Elems(queue[q])' = Elems(queue'[q])
      BY DEF Elems
    <3>1. CASE p = h /\ c = e
      BY <1>3, <1>5, <3>0, <3>1 DEF Carries
    <3>2. CASE p = h /\ c # e
      BY <1>1, <1>5, <2>1, <3>0, <3>2 DEF Carries, Broken, e, qvars, svars, rvars
    <3>3. CASE p # h
      <4>1. queue'[p] = queue[p] /\ (p \in Elems(targets) <=> p \in Elems(targets'))
        BY <1>3, <1>6, <3>3
      <4> QED BY <1>1, <2>1, <3>0, <4>1 DEF Carries, Broken, qvars, svars, rvars
    <3> QED BY <3>1, <3>2, <3>3
  <2> QED BY <1>0, <1>1, <2>1, CarryStep
<1> QED BY <1>7, <1>8, <1>9, <1>10, <1>11, <1>12 DEF TransferInv

\* The dispatcher closes the queues, main sees all writers gone, main closes
\* the connections after the drain: no chunk moves.
LEMMA MainMovesOn ==
    ASSUME TransferInv, WriterInv, UNCHANGED <<svars, rvars>>,
           \/ cpc = "send" /\ CloseQueues(ChunkCount) /\ UNCHANGED <<cpc, ci>>
           \/ SendDone
           \/ Exit
    PROVE  TransferInv'
<1>0. SessionInv /\ NilInv /\ ClientTypeOK /\ PhaseInv /\ AckInv /\ StreamInv
      /\ OnceInv /\ CarryInv /\ 0 \in Paths
  BY PathAssumption DEF TransferInv, Paths
<1>1. UNCHANGED qvars \/ ClientCloseAll
  BY DEF CloseQueues, SendDone, Exit
<1>2. UNCHANGED <<sched, n, next, targets, queue, writers, cur, countvars, drain, ci>>
  BY DEF CloseQueues, SendDone, Exit, sendvars, batchvars
<1>3. UNCHANGED <<preamble, up, fin, ack>>
  BY <1>1 DEF qvars, ClientCloseAll
<1>4. SessionInv' /\ NilInv'
  BY <1>0, <1>1, ClientKeepsSession DEF QuicStep
<1>5. ClientTypeOK'
  <2>1. qClosed' \in BOOLEAN /\ cpc' \in {"send", "drain", "exit"}
    BY <1>0 DEF CloseQueues, SendDone, Exit, sendvars, batchvars, ClientTypeOK, SendTypeOK
  <2> QED BY <1>0, <1>2, <2>1 DEF ClientTypeOK, SendTypeOK, countvars
<1>6. PhaseInv'
  <2>1. CASE cpc = "send" /\ CloseQueues(ChunkCount) /\ UNCHANGED <<cpc, ci>>
    BY <1>0, <1>2, <1>3, <2>1 DEF PhaseInv, CloseQueues
  <2>2. CASE SendDone \/ Exit
    <3>0. WritersDone => AllWritten
      BY DEF WritersDone, AllWritten, WriterInv
    <3>1. /\ qClosed' = qClosed /\ AllWritten /\ cpc \in {"send", "drain"}
          /\ cpc' \in {"drain", "exit"}
      BY <1>0, <2>2, <3>0 DEF SendDone, Exit, PhaseInv, sendvars, batchvars
    <3>2. AllWritten'
      BY <1>2, <3>1 DEF AllWritten
    <3> QED BY <1>0, <1>2, <1>3, <3>1, <3>2 DEF PhaseInv
  <2> QED BY <2>1, <2>2
<1>7. AckInv' /\ StreamInv' /\ OnceInv'
  BY <1>0, <1>2, <1>3 DEF AckInv, StreamInv, OnceInv, svars, countvars
<1>8. CarryInv'
  <2>1. \A p \in Paths : Broken(p) => Broken(p)'
    BY <1>1, <1>2 DEF Broken, ClientCloseAll, qvars
  <2>2. ASSUME NEW p \in Paths, NEW c \in 0..(next - 1), Carries(p, c) PROVE Carries(p, c)'
    BY <1>2, <1>3, <2>1, <2>2 DEF Carries, svars, rvars
  <2> QED BY <1>0, <1>2, <2>2, CarryStep
<1> QED BY <1>4, <1>5, <1>6, <1>7, <1>8 DEF TransferInv

\* The writer of a path takes a chunk from its queue.
LEMMA TakeKeeps ==
    ASSUME TransferInv, NEW p \in Paths, TakeChunk(p), UNCHANGED <<cpc, ci>>,
           UNCHANGED <<svars, rvars>>
    PROVE  TransferInv'
<1>0. SessionInv /\ NilInv /\ ClientTypeOK /\ PhaseInv /\ AckInv /\ StreamInv
      /\ OnceInv /\ CarryInv
  BY DEF TransferInv
<1> DEFINE e == Head(queue[p])
<1>1. /\ cur[p] = NoChunk /\ queue[p] # << >>
      /\ cur' = [cur EXCEPT ![p] = e] /\ queue' = [queue EXCEPT ![p] = Tail(@)]
      /\ UNCHANGED <<sched, n, next, targets, qClosed, writers, countvars, drain, qvars>>
  BY DEF TakeChunk
<1>t. /\ queue \in [Paths -> Seq(SplitSeqs)] /\ SplitSeqs = 0..(ChunkCount - 1)
      /\ cur \in [Paths -> SplitSeqs \cup {NoChunk}] /\ NoChunk \notin SplitSeqs
      /\ chunksSent \in [Paths -> Nat]
  BY <1>0, TransferTypes
<1>2. /\ e \in SplitSeqs /\ Tail(queue[p]) \in Seq(SplitSeqs)
      /\ Len(queue[p]) \in Nat \ {0} /\ Len(Tail(queue[p])) = Len(queue[p]) - 1
      /\ Elems(queue[p]) = {e} \cup Elems(Tail(queue[p]))
  BY <1>1, <1>t, TailFacts
<1>3. /\ queue' \in [Paths -> Seq(SplitSeqs)] /\ queue'[p] = Tail(queue[p])
      /\ cur' \in [Paths -> SplitSeqs \cup {NoChunk}] /\ cur'[p] = e
      /\ \A q \in Paths \ {p} : queue'[q] = queue[q] /\ cur'[q] = cur[q]
  BY <1>1, <1>2, <1>t
<1> HIDE DEF e
<1>4. SessionInv' /\ NilInv'
  BY <1>0, <1>1, ClientKeepsSession
<1>5. ClientTypeOK'
  <2>1. \A q \in Paths : Len(queue'[q]) <= QueueCap
    <3> TAKE q \in Paths
    <3>1. Len(queue[q]) <= QueueCap /\ QueueCap \in Nat
      BY <1>0, SendAssumption DEF ClientTypeOK, SendTypeOK
    <3>2. CASE q = p
      BY <1>2, <1>3, <3>1, <3>2, SMT
    <3> QED BY <1>3, <3>1, <3>2
  <2> QED BY <1>0, <1>1, <1>3, <1>t, <2>1 DEF ClientTypeOK, SendTypeOK, countvars
<1>6. PhaseInv'
  <2>1. cpc = "send"
    BY <1>0, <1>1 DEF PhaseInv, AllWritten, ClientTypeOK
  <2> QED BY <1>0, <1>1, <2>1 DEF PhaseInv, qvars, svars
<1>7. AckInv' /\ StreamInv'
  BY <1>0, <1>1 DEF AckInv, StreamInv, svars, qvars, countvars
<1>8. OnceInv'
  <2>1. ASSUME NEW q \in Paths
        PROVE  chunksSent'[q] + Len(queue'[q]) + (IF cur'[q] = NoChunk THEN 0 ELSE 1)
                 + (IF q \in Elems(targets)' THEN 1 ELSE 0) <= next'
    <3>1. /\ chunksSent[q] \in Nat /\ Len(queue[q]) \in Nat
          /\ chunksSent[q] + Len(queue[q]) + (IF cur[q] = NoChunk THEN 0 ELSE 1)
               + (IF q \in Elems(targets) THEN 1 ELSE 0) <= next
          /\ Elems(targets)' = Elems(targets) /\ chunksSent' = chunksSent /\ next' = next
      BY <1>0, <1>1, <1>t DEF OnceInv, Elems, countvars
    <3>2. CASE q = p
      <4>1. cur[p] = NoChunk /\ cur'[p] # NoChunk /\ Len(queue'[p]) = Len(queue[p]) - 1
        BY <1>1, <1>2, <1>3, <1>t
      <4>2. next \in Nat
        BY <1>0, TransferTypes
      <4> QED BY <3>1, <3>2, <4>1, <4>2
    <3>3. CASE q # p
      BY <1>3, <3>1, <3>3
    <3> QED BY <3>2, <3>3
  <2> QED BY <1>0, <1>1, <2>1 DEF OnceInv
<1>9. CarryInv'
  <2>1. ASSUME NEW q \in Paths, NEW c \in 0..(next - 1), Carries(q, c) PROVE Carries(q, c)'
    <3>0. Elems(targets)' = Elems(targets) /\ Elems(queue[q])' = Elems(queue'[q])
          /\ Elems(up[q])' = Elems(up[q])
      BY <1>1 DEF Elems, qvars
    <3>1. c # NoChunk
      BY SMT DEF NoChunk
    <3>2. CASE q = p
      <4>1. c \in Elems(queue[q]) => c \in Elems(queue'[q]) \/ c = cur'[q]
        BY <1>2, <1>3, <3>2
      <4>2. c # cur[q]
        BY <1>1, <3>1, <3>2
      <4> QED BY <1>1, <2>1, <3>0, <4>1, <4>2 DEF Carries, Broken, qvars, svars, rvars
    <3>3. CASE q # p
      BY <1>1, <1>3, <2>1, <3>0, <3>3 DEF Carries, Broken, qvars, svars, rvars
    <3> QED BY <3>2, <3>3
  <2> QED BY <1>0, <1>1, <2>1, CarryStep
<1> QED BY <1>4, <1>5, <1>6, <1>7, <1>8, <1>9 DEF TransferInv

\* A chunk counts for its path from the moment it is written.
LEMMA WriteKeeps ==
    ASSUME TransferInv, NEW p \in Paths, WriteChunk(p, cur[p], ChunkLen(cur[p])),
           UNCHANGED <<cpc, ci>>, UNCHANGED <<svars, rvars>>
    PROVE  TransferInv'
<1>0. SessionInv /\ NilInv /\ ClientTypeOK /\ PhaseInv /\ AckInv /\ StreamInv
      /\ OnceInv /\ CarryInv
  BY DEF TransferInv
<1> DEFINE e == cur[p]
<1>1. /\ e # NoChunk /\ SendChunk(p, e)
      /\ chunksSent' = [chunksSent EXCEPT ![p] = @ + 1]
      /\ bytesSent' = [bytesSent EXCEPT ![p] = @ + ChunkLen(e)]
      /\ cur' = [cur EXCEPT ![p] = NoChunk]
      /\ UNCHANGED <<sched, n, next, targets, queue, qClosed, writers, drain>>
      /\ up' = [up EXCEPT ![p] = Append(@, e)]
      /\ UNCHANGED <<preamble, fin, ack, cUp, sUp>>
  BY DEF WriteChunk, SendChunk, batchvars
<1>t. /\ SplitSeqs = 0..(ChunkCount - 1) /\ up \in [Paths -> Seq(SplitSeqs)]
      /\ cur \in [Paths -> SplitSeqs \cup {NoChunk}] /\ NoChunk \notin SplitSeqs
      /\ queue \in [Paths -> Seq(SplitSeqs)]
      /\ chunksSent \in [Paths -> Nat] /\ bytesSent \in [Paths -> Nat] /\ next \in Nat
      /\ chunks \in [Paths -> Nat] /\ bytesReceived \in [Paths -> Nat]
  BY <1>0, TransferTypes
<1>2. e \in SplitSeqs /\ ChunkLen(e) \in Nat
  BY <1>1, <1>t, ChunkBytes
<1>3. /\ up[p] \in Seq(SplitSeqs) /\ up'[p] = Append(up[p], e)
      /\ Len(up'[p]) = Len(up[p]) + 1 /\ Elems(up'[p]) = Elems(up[p]) \cup {e}
      /\ BytesIn(up[p]) \in Nat /\ BytesIn(up'[p]) = BytesIn(up[p]) + ChunkLen(e)
  <2>1. up[p] \in Seq(SplitSeqs) /\ up'[p] = Append(up[p], e)
    BY <1>1, <1>t
  <2> HIDE DEF e
  <2> QED BY <1>2, <2>1, AppendFacts, BytesAppend
<1>4. /\ chunksSent'[p] = chunksSent[p] + 1
      /\ bytesSent'[p] = bytesSent[p] + ChunkLen(e) /\ cur'[p] = NoChunk
      /\ chunksSent' \in [Paths -> Nat] /\ bytesSent' \in [Paths -> Nat]
      /\ cur' \in [Paths -> SplitSeqs \cup {NoChunk}]
      /\ \A q \in Paths \ {p} : /\ up'[q] = up[q] /\ cur'[q] = cur[q]
                                /\ chunksSent'[q] = chunksSent[q]
                                /\ bytesSent'[q] = bytesSent[q]
  BY <1>1, <1>2, <1>t
<1>5. cpc = "send"
  BY <1>0, <1>1 DEF PhaseInv, AllWritten, ClientTypeOK
<1> HIDE DEF e
<1>6. SessionInv' /\ NilInv'
  BY <1>0, <1>1, <1>2, ClientKeepsSession DEF QuicStep
<1>7. ClientTypeOK'
  BY <1>0, <1>1, <1>4, <1>t DEF ClientTypeOK, SendTypeOK
<1>8. PhaseInv'
  BY <1>0, <1>1, <1>5 DEF PhaseInv, svars
<1>9. AckInv'
  <2>1. readErr[p] # "EOF"
    BY <1>0, <1>5 DEF PhaseInv, AckInv
  <2> QED BY <1>0, <1>1, <1>4, <2>1 DEF AckInv, svars
<1>10. StreamInv'
  <2> SUFFICES ASSUME NEW q \in Paths
               PROVE  /\ chunks'[q] + Len(up'[q]) = chunksSent'[q]
                      /\ bytesReceived'[q] + BytesIn(up'[q]) = bytesSent'[q]
    BY DEF StreamInv, BytesIn
  <2>1. /\ chunks[q] + Len(up[q]) = chunksSent[q]
        /\ bytesReceived[q] + BytesIn(up[q]) = bytesSent[q]
        /\ chunks' = chunks /\ bytesReceived' = bytesReceived
        /\ chunks[q] \in Nat /\ bytesReceived[q] \in Nat /\ Len(up[q]) \in Nat
    BY <1>0, <1>t DEF StreamInv, svars
  <2>2. CASE q = p
    <3>1. chunks[p] + (Len(up[p]) + 1) = chunksSent[p] + 1
      BY <2>1, <2>2
    <3>2. bytesReceived[p] + (BytesIn(up[p]) + ChunkLen(e)) = bytesSent[p] + ChunkLen(e)
      BY <1>2, <1>3, <2>1, <2>2
    <3> QED BY <1>3, <1>4, <2>1, <2>2, <3>1, <3>2
  <2>3. CASE q # p
    BY <1>4, <2>1, <2>3
  <2> QED BY <2>2, <2>3
<1>11. OnceInv'
  <2>1. ASSUME NEW q \in Paths
        PROVE  chunksSent'[q] + Len(queue'[q]) + (IF cur'[q] = NoChunk THEN 0 ELSE 1)
                 + (IF q \in Elems(targets)' THEN 1 ELSE 0) <= next'
    <3>1. /\ chunksSent[q] \in Nat /\ Len(queue[q]) \in Nat
          /\ chunksSent[q] + Len(queue[q]) + (IF cur[q] = NoChunk THEN 0 ELSE 1)
               + (IF q \in Elems(targets) THEN 1 ELSE 0) <= next
      BY <1>0, <1>t DEF OnceInv
    <3> Elems(targets)' = Elems(targets) /\ queue' = queue /\ next' = next
      BY <1>1 DEF Elems
    <3>2. CASE q = p
      <4>1. cur[p] # NoChunk
        BY <1>1 DEF e
      <4> QED BY <1>4, <1>t, <3>1, <3>2, <4>1
    <3>3. CASE q # p
      BY <1>4, <3>1, <3>3
    <3> QED BY <3>2, <3>3
  <2> QED BY <1>0, <1>1, <2>1 DEF OnceInv
<1>12. CarryInv'
  <2>1. ASSUME NEW q \in Paths, NEW c \in 0..(next - 1), Carries(q, c) PROVE Carries(q, c)'
    <3>0. Elems(targets)' = Elems(targets) /\ Elems(queue[q])' = Elems(queue[q])
          /\ Elems(up[q])' = Elems(up'[q])
      BY <1>1 DEF Elems
    <3>1. Elems(up[q]) \subseteq Elems(up'[q])
      BY <1>3, <1>4
    <3>2. c = cur[q] => c = cur'[q] \/ c \in Elems(up'[q])
      BY <1>3, <1>4 DEF e
    <3> QED BY <1>1, <2>1, <3>0, <3>1, <3>2 DEF Carries, Broken, svars, rvars
  <2> QED BY <1>0, <1>1, <2>1, CarryStep
<1> QED BY <1>6, <1>7, <1>8, <1>9, <1>10, <1>11, <1>12 DEF TransferInv

\* A chunk that cannot be written is dropped: its path is broken for good.
LEMMA WriteFailsKeeps ==
    ASSUME TransferInv, NEW p \in Paths, WriteFails(p), UNCHANGED <<cpc, ci>>,
           UNCHANGED <<svars, rvars>>
    PROVE  TransferInv'
<1>0. SessionInv /\ NilInv /\ ClientTypeOK /\ PhaseInv /\ AckInv /\ StreamInv
      /\ OnceInv /\ CarryInv
  BY DEF TransferInv
<1>1. /\ cur[p] # NoChunk /\ ~cUp[p] /\ cur' = [cur EXCEPT ![p] = NoChunk]
      /\ UNCHANGED <<sched, n, next, targets, queue, qClosed, writers, countvars, drain, qvars>>
  BY DEF WriteFails, batchvars
<1>t. /\ cur \in [Paths -> SplitSeqs \cup {NoChunk}] /\ SplitSeqs = 0..(ChunkCount - 1)
      /\ next \in Nat /\ chunksSent \in [Paths -> Nat] /\ queue \in [Paths -> Seq(SplitSeqs)]
  BY <1>0, TransferTypes
<1>2. /\ cur' \in [Paths -> SplitSeqs \cup {NoChunk}] /\ cur'[p] = NoChunk
      /\ \A q \in Paths \ {p} : cur'[q] = cur[q]
  BY <1>1, <1>t
<1>3. cpc = "send"
  BY <1>0, <1>1 DEF PhaseInv, AllWritten, ClientTypeOK
<1>4. SessionInv' /\ NilInv'
  BY <1>0, <1>1, ClientKeepsSession
<1>5. ClientTypeOK'
  BY <1>0, <1>1, <1>2, <1>t DEF ClientTypeOK, SendTypeOK, countvars
<1>6. PhaseInv' /\ AckInv' /\ StreamInv'
  BY <1>0, <1>1, <1>3 DEF PhaseInv, AckInv, StreamInv, svars, qvars, countvars
<1>7. OnceInv'
  <2>1. ASSUME NEW q \in Paths
        PROVE  chunksSent'[q] + Len(queue'[q]) + (IF cur'[q] = NoChunk THEN 0 ELSE 1)
                 + (IF q \in Elems(targets)' THEN 1 ELSE 0) <= next'
    <3>1. /\ chunksSent[q] \in Nat /\ Len(queue[q]) \in Nat
          /\ chunksSent[q] + Len(queue[q]) + (IF cur[q] = NoChunk THEN 0 ELSE 1)
               + (IF q \in Elems(targets) THEN 1 ELSE 0) <= next
      BY <1>0, <1>t DEF OnceInv
    <3>2. /\ Elems(targets)' = Elems(targets) /\ queue' = queue /\ next' = next
          /\ chunksSent' = chunksSent /\ (cur'[q] = NoChunk \/ cur'[q] = cur[q])
      BY <1>1, <1>2 DEF Elems, countvars
    <3> QED BY <1>t, <3>1, <3>2
  <2> QED BY <1>0, <1>1, <2>1 DEF OnceInv
<1>8. CarryInv'
  <2>1. ASSUME NEW q \in Paths, NEW c \in 0..(next - 1), Carries(q, c) PROVE Carries(q, c)'
    <3>1. CASE q = p
      <4>1. drain[p] # "acked"
        BY <1>0, <1>3 DEF PhaseInv
      <4>2. Broken(p)'
        BY <1>1, <4>1 DEF Broken, qvars
      <4> QED BY <3>1, <4>2 DEF Carries
    <3>2. CASE q # p
      BY <1>1, <1>2, <2>1, <3>2 DEF Carries, Broken, Elems, qvars, svars, rvars
    <3> QED BY <3>1, <3>2
  <2> QED BY <1>0, <1>1, <2>1, CarryStep
<1> QED BY <1>4, <1>5, <1>6, <1>7, <1>8 DEF TransferInv

\* A writer that has nothing left to write returns: no chunk moves.
LEMMA ReturnKeeps ==
    ASSUME TransferInv, NEW p \in Paths, WriterReturns(p), UNCHANGED <<cpc, ci>>,
           UNCHANGED <<svars, rvars>>
    PROVE  TransferInv'
<1>0. SessionInv /\ NilInv /\ ClientTypeOK /\ PhaseInv /\ AckInv /\ StreamInv
      /\ OnceInv /\ CarryInv
  BY DEF TransferInv
<1>1. /\ UNCHANGED <<sched, n, next, targets, queue, qClosed, cur, countvars, drain, qvars>>
      /\ writers' \subseteq writers
  BY DEF WriterReturns, batchvars
<1>2. SessionInv' /\ NilInv'
  BY <1>0, <1>1, ClientKeepsSession
<1>3. ClientTypeOK'
  BY <1>0, <1>1 DEF ClientTypeOK, SendTypeOK, countvars
<1>4. PhaseInv' /\ AckInv'
  BY <1>0, <1>1 DEF PhaseInv, AckInv, AllWritten, svars, qvars
<1>5. StreamInv'
  BY <1>0, <1>1 DEF StreamInv, BytesIn, svars, qvars, countvars
<1>6. OnceInv'
  BY <1>0, <1>1 DEF OnceInv, Elems, countvars
<1>7. \A q \in Paths, c \in 0..(next - 1) : Carries(q, c) => Carries(q, c)'
  BY <1>1 DEF Carries, Broken, Elems, svars, rvars, qvars
<1>8. CarryInv'
  BY <1>0, <1>1, <1>7, CarryStep
<1> QED BY <1>2, <1>3, <1>4, <1>5, <1>6, <1>8 DEF TransferInv

\* drainPath: close the stream, then read the ack or give up.
LEMMA DrainKeeps ==
    ASSUME TransferInv, NEW p \in Paths, DrainStep(p), UNCHANGED <<svars, rvars>>
    PROVE  TransferInv'
<1>0. SessionInv /\ NilInv /\ ClientTypeOK /\ PhaseInv /\ AckInv /\ StreamInv
      /\ OnceInv /\ CarryInv
  BY DEF TransferInv
<1>1. /\ cpc = "drain" /\ UNCHANGED <<cpc, ci>>
      /\ UNCHANGED <<sched, n, next, targets, queue, qClosed, writers, cur, chunksSent, bytesSent>>
      /\ UNCHANGED <<preamble, up, ack, cUp, sUp>>
  BY DEF DrainStep, DrainClose, DrainAcked, DrainFails, CloseStream, batchvars, countvars, qvars
<1>t. /\ drain \in [Paths -> {"none", "wait", "acked", "gaveup"}]
      /\ fin \in [Paths -> BOOLEAN] /\ cUp \in [Paths -> BOOLEAN]
  BY <1>0, TransferTypes
<1>2. PICK to \in {"wait", "acked", "gaveup"} :
        /\ drain' = [drain EXCEPT ![p] = to]
        /\ to = "wait" => drain[p] = "none" /\ fin' = [fin EXCEPT ![p] = cUp[p]]
        /\ to # "wait" => drain[p] = "wait" /\ fin' = fin
        /\ to = "acked" => cUp[p] /\ ack[p]
  BY DEF DrainStep, DrainClose, DrainAcked, DrainFails, CloseStream, AckReadable, qvars
<1>3. CloseStream(p) \/ UNCHANGED qvars
  BY DEF DrainStep, DrainClose, DrainAcked, DrainFails
<1>4. SessionInv' /\ NilInv'
  BY <1>0, <1>3, ClientKeepsSession DEF QuicStep
<1>5. /\ drain' \in [Paths -> {"none", "wait", "acked", "gaveup"}] /\ drain'[p] = to
      /\ \A q \in Paths \ {p} : drain'[q] = drain[q] /\ fin'[q] = fin[q]
      /\ drain[p] \notin {"acked", "gaveup"}
  BY <1>2, <1>t
<1>6. ClientTypeOK'
  BY <1>0, <1>1, <1>5 DEF ClientTypeOK, SendTypeOK
<1>7. PhaseInv'
  <2>1. AllWritten'
    BY <1>0, <1>1 DEF PhaseInv, AllWritten
  <2>2. \A q \in Paths : fin'[q] => drain'[q] # "none"
    BY <1>0, <1>2, <1>5 DEF PhaseInv
  <2> QED BY <1>0, <1>1, <2>1, <2>2 DEF PhaseInv
<1>8. AckInv'
  <2> SUFFICES ASSUME NEW q \in Paths
               PROVE  /\ readErr[q] = "EOF" => fin'[q] /\ up[q] = << >>
                      /\ drain'[q] = "acked" => ack[q]
    BY <1>0, <1>1 DEF AckInv, svars
  <2>1. CASE q = p
    <3>1. drain[p] = "none" => readErr[p] # "EOF"
      BY <1>0 DEF AckInv, PhaseInv
    <3> QED BY <1>0, <1>2, <1>5, <2>1, <3>1 DEF AckInv
  <2>2. CASE q # p
    BY <1>0, <1>5, <2>2 DEF AckInv
  <2> QED BY <2>1, <2>2
<1>9. StreamInv' /\ OnceInv'
  BY <1>0, <1>1 DEF StreamInv, OnceInv, svars
<1>10. CarryInv'
  <2>1. \A q \in Paths : Broken(q) => Broken(q)'
    BY <1>1, <1>2, <1>5 DEF Broken
  <2>2. ASSUME NEW q \in Paths, NEW c \in 0..(next - 1), Carries(q, c) PROVE Carries(q, c)'
    BY <1>1, <2>1, <2>2 DEF Carries, Elems, svars, rvars
  <2> QED BY <1>0, <1>1, <2>2, CarryStep
<1> QED BY <1>4, <1>6, <1>7, <1>8, <1>9, <1>10 DEF TransferInv

\* A connection ends at one of its ends.
LEMMA NetworkKeeps ==
    ASSUME TransferInv, NEW p \in Paths, Network(p), UNCHANGED <<cvars, svars, rvars>>
    PROVE  TransferInv'
<1>0. SessionInv /\ NilInv /\ ClientTypeOK /\ PhaseInv /\ AckInv /\ StreamInv
      /\ OnceInv /\ CarryInv
  BY DEF TransferInv
<1>t. cUp \in [Paths -> BOOLEAN] /\ sUp \in [Paths -> BOOLEAN]
  BY <1>0, TransferTypes
<1>1. /\ UNCHANGED <<cpc, ci, sched, n, next, targets, queue, qClosed, writers, cur, chunksSent,
                     bytesSent, drain>>
      /\ UNCHANGED <<preamble, up, fin, ack>>
      /\ \A q \in Paths : (cUp'[q] => cUp[q]) /\ (sUp'[q] => sUp[q])
  BY <1>t DEF Network, ServerTornDown, ClientTornDown, PathLost, ServerClose, cvars,
      sendvars, batchvars, countvars
<1>2. SessionInv' /\ NilInv'
  BY <1>0, ClientKeepsSession DEF QuicStep
<1>3. ClientTypeOK'
  BY <1>0, <1>1 DEF ClientTypeOK, SendTypeOK
<1>4. PhaseInv' /\ AckInv'
  BY <1>0, <1>1 DEF PhaseInv, AckInv, AllWritten, svars
<1>6. StreamInv' /\ OnceInv'
  BY <1>0, <1>1 DEF StreamInv, OnceInv, svars
<1>5. CarryInv'
  <2>1. \A q \in Paths : Broken(q) => Broken(q)'
    BY <1>1 DEF Broken
  <2>2. ASSUME NEW q \in Paths, NEW c \in 0..(next - 1), Carries(q, c) PROVE Carries(q, c)'
    BY <1>1, <2>1, <2>2 DEF Carries, Elems, svars, rvars
  <2> QED BY <1>0, <1>1, <2>2, CarryStep
<1> QED BY <1>2, <1>3, <1>4, <1>5, <1>6 DEF TransferInv

-----------------------------------------------------------------------------
\* The server's steps.

\* Whatever a handler does, it does after its path was dialled, it takes
\* nothing back from the client and forgets no chunk.
LEMMA HandlerKeepsClient ==
    ASSUME TransferInv, NEW p \in Paths, NEW y, hpc' = [hpc EXCEPT ![p] = y],
           hpc[p] # "none" \/ sUp[p], UNCHANGED cvars, UNCHANGED <<fin, cUp>>,
           \A q \in Paths : /\ preamble'[q] # preamble[q] => preamble[q] = "sent" /\ preamble'[q] = "read"
                            /\ sUp'[q] => sUp[q]
    PROVE  ClientTypeOK' /\ PhaseInv' /\ OnceInv'
<1>0. ClientTypeOK /\ PhaseInv /\ OnceInv /\ hpc \in [Paths -> Handlers]
  BY TransferTypes DEF TransferInv
<1>1. UNCHANGED <<cpc, ci, sched, n, next, targets, queue, qClosed, writers, cur, chunksSent,
                  bytesSent, drain>>
  BY DEF cvars, sendvars, batchvars, countvars
<1>2. ClientTypeOK' /\ OnceInv'
  <2>1. ClientTypeOK'
    BY <1>0, <1>1 DEF ClientTypeOK, SendTypeOK
  <2>2. OnceInv'
    BY <1>0, <1>1 DEF OnceInv, Elems
  <2> QED BY <2>1, <2>2
<1>3. PhaseInv'
  <2>1. ASSUME cpc = "dial", NEW q \in Paths
        PROVE  preamble'[q] = "none" /\ (q >= ci => hpc'[q] = "none" /\ ~sUp'[q])
    BY <1>0, <2>1 DEF PhaseInv
  <2>2. \A q \in Paths : preamble'[q] = "none" <=> preamble[q] = "none"
    OBVIOUS
  <2>3. AllWritten' = AllWritten
    BY <1>1 DEF AllWritten
  <2> QED BY <1>0, <1>1, <2>1, <2>2, <2>3 DEF PhaseInv
<1> QED BY <1>2, <1>3

\* Outside the read loop's first half no counter and no stream moves.
LEMMA QuietHandler ==
    ASSUME TransferInv, UNCHANGED cvars,
           UNCHANGED <<up, cUp, chunks, corrupted, bytesReceived>>,
           \A c \in DOMAIN received : received[c] => c \in DOMAIN received' /\ received'[c]
    PROVE  StreamInv' /\ CarryInv'
<1>0. StreamInv /\ CarryInv
  BY DEF TransferInv
<1>1. UNCHANGED <<sched, next, targets, queue, cur, chunksSent, bytesSent, drain>>
  BY DEF cvars, sendvars, batchvars, countvars
<1>2. StreamInv'
  BY <1>0, <1>1 DEF StreamInv, BytesIn
<1>3. ASSUME NEW q \in Paths, NEW c \in 0..(next - 1), Carries(q, c) PROVE Carries(q, c)'
  BY <1>1, <1>3 DEF Carries, Elems, Broken
<1> QED BY <1>0, <1>1, <1>2, <1>3, CarryStep

\* Reading a chunk: it leaves the stream, is counted, and is then in the
\* reassembler or on the corrupted count.
LEMMA ReadKeeps ==
    ASSUME TransferInv, NEW p \in Paths, ReadChunk(p) \/ ReadCorruptChunk(p), UNCHANGED cvars
    PROVE  AckInv' /\ StreamInv' /\ CarryInv'
<1>0. SessionInv /\ AckInv /\ StreamInv /\ CarryInv
  BY DEF TransferInv
<1>1. UNCHANGED <<sched, next, targets, queue, cur, chunksSent, bytesSent, drain>>
  BY DEF cvars, sendvars, batchvars, countvars
<1> DEFINE e == Head(up[p])
<1>2. /\ hpc[p] = "read" /\ hpc' \in {hpc, [hpc EXCEPT ![p] = "log"]}
      /\ up[p] # << >> /\ up' = [up EXCEPT ![p] = Tail(@)]
      /\ UNCHANGED <<preamble, fin, ack, cUp, sUp, readErr>>
      /\ chunks' = [chunks EXCEPT ![p] = @ + 1]
      /\ bytesReceived' = [bytesReceived EXCEPT ![p] = @ + ChunkLen(e)]
      /\ corrupted' = corrupted \/ corrupted' = [corrupted EXCEPT ![p] = @ + 1]
  BY DEF ReadChunk, ReadCorruptChunk, ReceiveChunk, At
<1>t. /\ up \in [Paths -> Seq(SplitSeqs)] /\ hpc \in [Paths -> Handlers]
      /\ chunks \in [Paths -> Nat] /\ bytesReceived \in [Paths -> Nat]
      /\ corrupted \in [Paths -> Nat]
      /\ chunksSent \in [Paths -> Nat] /\ bytesSent \in [Paths -> Nat]
  BY TransferTypes DEF TransferInv
<1>3. /\ e \in SplitSeqs /\ up'[p] = Tail(up[p]) /\ Len(up[p]) \in Nat
      /\ Len(up'[p]) = Len(up[p]) - 1 /\ Elems(up[p]) = {e} \cup Elems(up'[p])
      /\ BytesIn(up'[p]) \in Nat /\ BytesIn(up[p]) = BytesIn(up'[p]) + ChunkLen(e)
  <2>1. up[p] \in Seq(SplitSeqs) /\ up'[p] = Tail(up[p])
    BY <1>2, <1>t
  <2> QED BY <1>2, <2>1, TailFacts, BytesTail
<1>4. ChunkLen(e) \in Nat
  BY <1>3, ChunkBytes
<1>5. /\ chunks'[p] = chunks[p] + 1 /\ bytesReceived'[p] = bytesReceived[p] + ChunkLen(e)
      /\ \A q \in Paths \ {p} : /\ up'[q] = up[q] /\ chunks'[q] = chunks[q]
                                /\ bytesReceived'[q] = bytesReceived[q]
                                /\ hpc'[q] = hpc[q]
      /\ \A q \in Paths : corrupted[q] > 0 => corrupted'[q] > 0
  <2>1. \A q \in Paths \ {p} : hpc'[q] = hpc[q]
    BY <1>2, <1>t
  <2>2. ASSUME NEW q \in Paths, corrupted[q] > 0 PROVE corrupted'[q] > 0
    <3>1. corrupted[q] \in Nat /\ (corrupted'[q] = corrupted[q] \/ corrupted'[q] = corrupted[q] + 1)
      BY <1>2, <1>t
    <3> QED BY <2>2, <3>1
  <2> HIDE DEF e
  <2> QED BY <1>2, <1>t, <2>1, <2>2
<1>6. /\ \A c \in DOMAIN received : received[c] => c \in DOMAIN received' /\ received'[c]
      /\ corrupted'[p] > 0 \/ (e \in DOMAIN received' /\ received'[e])
  <2>1. CASE ReadCorruptChunk(p)
    BY <1>t, <2>1 DEF ReadCorruptChunk, rvars
  <2>2. CASE ReadChunk(p)
    <3>1. sess = "ready"
      BY <1>0, <1>2 DEF SessionInv, JoinedInv, Early
    <3>2. received \in [0..(NumChunks - 1) -> BOOLEAN]
      BY <1>0, <3>1 DEF SessionInv, ReassemblerInv, ReassemblerTypeOK
    <3>3. ChunkAt(e).offset \div ChunkSize = e
      BY <1>3, ChunkBytes DEF ChunkAt
    <3>4. e \in 0..(NumChunks - 1)
      BY <1>3, ChunkNumbers
    <3>5. Write(ChunkAt(e))
      BY <2>2 DEF ReadChunk
    <3> HIDE DEF e
    <3>6. \/ received' = received /\ received[e]
          \/ received' = [received EXCEPT ![e] = TRUE]
      BY <3>2, <3>3, <3>4, <3>5 DEF Write, rvars
    <3> QED BY <3>2, <3>4, <3>6
  <2> QED BY <2>1, <2>2
<1> HIDE DEF e
<1>7. AckInv'
  <2> SUFFICES ASSUME NEW q \in Paths
               PROVE  /\ readErr[q] = "EOF" => up'[q] = << >>
                      /\ readErr[q] = "none" <=> hpc'[q] \in Early \cup {"read", "log"}
                      /\ hpc'[q] = "acked" => readErr[q] = "EOF"
                      /\ ack[q] => hpc'[q] = "acked"
    BY <1>0, <1>1, <1>2 DEF AckInv
  <2>1. CASE q = p
    <3>1. readErr[p] = "none" /\ ~ack[p]
      BY <1>0, <1>2 DEF AckInv
    <3>2. hpc'[p] \in {"read", "log"}
      BY <1>2, <1>t
    <3> QED BY <2>1, <3>1, <3>2
  <2>2. CASE q # p
    BY <1>0, <1>5, <2>2 DEF AckInv
  <2> QED BY <2>1, <2>2
<1>8. StreamInv'
  <2> SUFFICES ASSUME NEW q \in Paths
               PROVE  /\ chunks'[q] + Len(up'[q]) = chunksSent'[q]
                      /\ bytesReceived'[q] + BytesIn(up'[q]) = bytesSent'[q]
    BY DEF StreamInv, BytesIn
  <2>1. /\ chunks[q] + Len(up[q]) = chunksSent[q]
        /\ bytesReceived[q] + BytesIn(up[q]) = bytesSent[q]
        /\ chunks[q] \in Nat /\ bytesReceived[q] \in Nat
    BY <1>0, <1>t DEF StreamInv
  <2>2. CASE q = p
    <3>1. (chunks[p] + 1) + (Len(up[p]) - 1) = chunksSent[p]
      BY <1>3, <2>1, <2>2
    <3>2. (bytesReceived[p] + ChunkLen(e)) + BytesIn(up'[p]) = bytesSent[p]
      BY <1>3, <1>4, <2>1, <2>2
    <3> QED BY <1>1, <1>3, <1>5, <2>2, <3>1, <3>2
  <2>3. CASE q # p
    BY <1>1, <1>5, <2>1, <2>3
  <2> QED BY <2>2, <2>3
<1>9. CarryInv'
  <2>1. ASSUME NEW q \in Paths, NEW c \in 0..(next - 1), Carries(q, c) PROVE Carries(q, c)'
    <3>0. Elems(targets)' = Elems(targets) /\ Elems(queue[q])' = Elems(queue[q])
          /\ Elems(up[q])' = Elems(up'[q])
      BY <1>1 DEF Elems
    <3>1. CASE c \in Elems(up[q])
      <4>1. (q = p /\ c = e) \/ c \in Elems(up'[q])
        BY <1>3, <1>5, <3>1
      <4> QED BY <1>6, <3>0, <4>1 DEF Carries
    <3>2. CASE c \notin Elems(up[q])
      BY <1>1, <1>2, <1>5, <1>6, <2>1, <3>0, <3>2 DEF Carries, Broken
    <3> QED BY <3>1, <3>2
  <2> QED BY <1>0, <1>1, <2>1, CarryStep
<1> QED BY <1>7, <1>8, <1>9

\* Handler steps outside the read loop's first half, as the client sees them.
LEMMA MoveKeepsAcks ==
    ASSUME AckInv, NEW p \in Paths, NEW y, hpc \in [Paths -> Handlers],
           hpc' = [hpc EXCEPT ![p] = y],
           UNCHANGED <<up, fin, drain>>,
           readErr' = readErr /\ (y \in Early \cup {"read", "log"}
                                    <=> hpc[p] \in Early \cup {"read", "log"}),
           \/ y # "acked" /\ hpc[p] # "acked" /\ ack' = ack
           \/ y = "acked" /\ readErr[p] = "EOF" /\ ack' = [ack EXCEPT ![p] = TRUE],
           ack \in [Paths -> BOOLEAN]
    PROVE  AckInv'
<1> SUFFICES ASSUME NEW q \in Paths
             PROVE  /\ readErr[q] = "EOF" => fin[q] /\ up[q] = << >>
                    /\ readErr[q] = "none" <=> hpc'[q] \in Early \cup {"read", "log"}
                    /\ hpc'[q] = "acked" => readErr[q] = "EOF"
                    /\ ack'[q] => hpc'[q] = "acked"
                    /\ drain[q] = "acked" => ack'[q]
  BY DEF AckInv
<1>1. CASE q = p
  BY <1>1 DEF AckInv
<1>2. CASE q # p
  BY <1>2 DEF AckInv
<1> QED BY <1>1, <1>2

\* Every step of the session keeps the invariant of the whole transfer.
LEMMA ServerKeeps ==
    ASSUME TransferInv, ServerStep, UNCHANGED cvars
    PROVE  TransferInv'
<1>0. SessionInv /\ NilInv /\ ClientTypeOK /\ PhaseInv /\ AckInv /\ StreamInv
      /\ OnceInv /\ CarryInv
  BY DEF TransferInv
<1>1. SessionInv' /\ NilInv'
  BY <1>0, ServerStepPreserves, NilStep DEF ServerNext
<1>u. UNCHANGED <<cpc, ci, sched, n, next, targets, queue, qClosed, writers, cur, chunksSent,
                  bytesSent, drain>>
  BY DEF cvars, sendvars, batchvars, countvars
<1>t. /\ hpc \in [Paths -> Handlers] /\ ack \in [Paths -> BOOLEAN]
      /\ sUp \in [Paths -> BOOLEAN]
      /\ readErr \in [Paths -> {"none", "EOF", "err"}]
      /\ preamble \in [Paths -> {"none", "sent", "read"}]
  BY <1>0, TransferTypes
<1>2. CASE Finalize
  <2>1. UNCHANGED <<preamble, up, fin, ack, cUp, sUp, hpc, chunks, corrupted,
                    bytesReceived, readErr, received>>
    BY <1>2 DEF Finalize, FinalizeAs, qvars, rvars
  <2>2. StreamInv' /\ CarryInv'
    BY <2>1, QuietHandler
  <2>3. ClientTypeOK'
    BY <1>0, <1>u DEF ClientTypeOK, SendTypeOK
  <2>4. PhaseInv' /\ AckInv'
    BY <1>0, <1>u, <2>1 DEF PhaseInv, AckInv, AllWritten
  <2>5. OnceInv'
    BY <1>0, <1>u DEF OnceInv, Elems
  <2> QED BY <1>1, <2>2, <2>3, <2>4, <2>5 DEF TransferInv
<1>3. ASSUME NEW p \in Paths, HandlerStep(p) PROVE TransferInv'
  <2>1. CASE ReadChunk(p) \/ ReadCorruptChunk(p)
    <3>1. AckInv' /\ StreamInv' /\ CarryInv'
      BY <2>1, ReadKeeps
    <3>2. \E y : /\ hpc' = [hpc EXCEPT ![p] = y] /\ hpc[p] # "none"
                 /\ UNCHANGED <<fin, cUp, preamble, sUp>>
      <4>1. CASE ReadChunk(p)
        BY <4>1 DEF ReadChunk, ReceiveChunk, At
      <4>2. CASE ReadCorruptChunk(p)
        <5>1. hpc' = [hpc EXCEPT ![p] = "read"]
          BY <1>t, <4>2 DEF ReadCorruptChunk
        <5> QED BY <4>2, <5>1 DEF ReadCorruptChunk, ReceiveChunk
      <4> QED BY <2>1, <4>1, <4>2
    <3>3. ClientTypeOK' /\ PhaseInv' /\ OnceInv'
      BY <3>2, HandlerKeepsClient
    <3> QED BY <1>1, <3>1, <3>3 DEF TransferInv
  <2>2. CASE StopReading(p)
    <3>1. /\ hpc[p] = "read" /\ hpc' = [hpc EXCEPT ![p] = "done"]
          /\ UNCHANGED <<preamble, up, fin, ack, cUp, sUp, chunks, corrupted,
                         bytesReceived, received>>
          /\ \/ AtEOF(p) /\ readErr' = [readErr EXCEPT ![p] = "EOF"]
             \/ readErr' = [readErr EXCEPT ![p] = "err"]
      BY <2>2 DEF StopReading, At, qvars, rvars
    <3>2. StreamInv' /\ CarryInv'
      BY <3>1, QuietHandler
    <3>3. ClientTypeOK' /\ PhaseInv' /\ OnceInv'
      BY <3>1, HandlerKeepsClient
    <3>4. AckInv'
      <4> SUFFICES ASSUME NEW q \in Paths
                   PROVE  /\ readErr'[q] = "EOF" => fin[q] /\ up[q] = << >>
                          /\ readErr'[q] = "none" <=> hpc'[q] \in Early \cup {"read", "log"}
                          /\ hpc'[q] = "acked" => readErr'[q] = "EOF"
                          /\ ack[q] => hpc'[q] = "acked"
        BY <1>0, <1>u, <3>1 DEF AckInv
      <4>1. CASE q = p
        BY <1>0, <1>t, <3>1, <4>1 DEF AckInv, AtEOF, Early
      <4>2. CASE q # p
        BY <1>0, <1>t, <3>1, <4>2 DEF AckInv
      <4> QED BY <4>1, <4>2
    <3> QED BY <1>1, <3>2, <3>3, <3>4 DEF TransferInv
  <2>3. ASSUME NEW y,
               /\ hpc' = [hpc EXCEPT ![p] = y] /\ (hpc[p] # "none" \/ sUp[p])
               /\ UNCHANGED <<up, fin, cUp, chunks, corrupted, bytesReceived, readErr>>
               /\ (y \in Early \cup {"read", "log"} <=> hpc[p] \in Early \cup {"read", "log"})
               /\ \/ y # "acked" /\ hpc[p] # "acked" /\ ack' = ack
                  \/ y = "acked" /\ readErr[p] = "EOF" /\ ack' = [ack EXCEPT ![p] = TRUE]
               /\ \/ preamble' = preamble
                  \/ preamble[p] = "sent" /\ preamble' = [preamble EXCEPT ![p] = "read"]
               /\ sUp' = sUp \/ sUp' = [sUp EXCEPT ![p] = FALSE]
               /\ \A c \in DOMAIN received : received[c] => c \in DOMAIN received' /\ received'[c]
        PROVE  TransferInv'
    <3>1. StreamInv' /\ CarryInv'
      BY <2>3, QuietHandler
    <3>2. AckInv'
      BY <1>0, <1>t, <1>u, <2>3, MoveKeepsAcks
    <3>3. \A q \in Paths :
             /\ preamble'[q] # preamble[q] => preamble[q] = "sent" /\ preamble'[q] = "read"
             /\ sUp'[q] => sUp[q]
      BY <1>t, <2>3
    <3>4. ClientTypeOK' /\ PhaseInv' /\ OnceInv'
      BY <2>3, <3>3, HandlerKeepsClient
    <3> QED BY <1>1, <3>1, <3>2, <3>4 DEF TransferInv
  <2>4. CASE Accept(p) \/ WaitReady(p) \/ LogDelivery(p) \/ RecordPath(p) \/ WgDone(p)
    BY <2>3, <2>4 DEF Accept, WaitReady, LogDelivery, RecordPath, WgDone, At, Early, qvars, rvars
  <2>5. CASE AcceptFails(p) \/ WaitReadyTimesOut(p) \/ CloseNow(p)
    BY <2>3, <2>5 DEF AcceptFails, WaitReadyTimesOut, Abort, CloseNow, ServerClose, At, Early, rvars
  <2>6. CASE GetOrCreate(p)
    <3> DEFINE y == IF p = 0 THEN "start" ELSE "wait"
    <3>1. hpc' = [hpc EXCEPT ![p] = y] /\ y \in Early /\ y # "acked"
      BY <2>6 DEF GetOrCreate, At, Early
    <3> HIDE DEF y
    <3> QED BY <2>3, <2>6, <3>1 DEF GetOrCreate, ReceivePreamble, At, Early, rvars
  <2>7. CASE Start(p)
    <3>1. received = [i \in {} |-> FALSE]
      BY <1>0, <2>7 DEF NilInv, Start, StartAdding
    <3>2. DOMAIN received = {}
      BY <3>1
    <3> QED BY <2>3, <2>7, <3>2 DEF Start, StartAdding, At, Early, qvars
  <2>8. CASE WriteAck(p)
    BY <2>3, <2>8 DEF WriteAck, SendAck, At, Early, rvars
  <2> QED BY <1>3, <2>1, <2>2, <2>4, <2>5, <2>6, <2>7, <2>8 DEF HandlerStep
<1> QED BY <1>2, <1>3 DEF ServerStep
-----------------------------------------------------------------------------
\* The invariant of the whole transfer.

\* Nothing is sent, queued or read before main dials.
LEMMA TransferInitially == Init => TransferInv
<1> SUFFICES ASSUME Init PROVE TransferInv
  OBVIOUS
<1>1. SessionInv
  BY SessionInit DEF Init
<1>2. NilInv
  BY DEF Init, ServerInit, NoReassembler, NilInv
<1>3. ChunkCount \in Nat \ {0} /\ 0 \in Paths
  <2>1. ChunkCount = NumChunks
    BY DEF ChunkCount, NumChunks
  <2> QED BY <2>1, ChunkNumbers, PathAssumption DEF Paths
<1>4. ClientTypeOK
  <2>1. SendTypeOK(ChunkCount - 1)
    BY <1>3, SendAssumption DEF Init, ClientInit, SendInit, SendTypeOK, NoChunk
  <2> QED BY <1>3, <2>1 DEF Init, ClientInit, ClientTypeOK
<1>5. PhaseInv
  BY DEF Init, ClientInit, SendInit, QuicInit, ServerInit, PhaseInv, AllWritten
<1>6. AckInv
  BY DEF Init, ClientInit, SendInit, QuicInit, ServerInit, AckInv, Early
<1>7. StreamInv
  <2>1. BytesIn(<< >>) = 0
    <3>1. 1..Len(<< >>) = {}
      OBVIOUS
    <3> QED BY <3>1, SumEmpty DEF BytesIn
  <2>2. \A p \in Paths : /\ up[p] = << >> /\ chunks[p] = 0 /\ chunksSent[p] = 0
                         /\ bytesReceived[p] = 0 /\ bytesSent[p] = 0
    BY DEF Init, ClientInit, SendInit, QuicInit, ServerInit
  <2> QED BY <2>1, <2>2 DEF StreamInv
<1>8. OnceInv
  <2>1. /\ next = 0 /\ targets = << >>
        /\ \A p \in Paths : queue[p] = << >> /\ cur[p] = NoChunk /\ chunksSent[p] = 0
    BY DEF Init, ClientInit, SendInit
  <2>2. Elems(targets) = {} /\ Len(targets) = 0
    BY <2>1, NoElems
  <2> QED BY <2>1, <2>2 DEF OnceInv
<1>9. CarryInv
  <2>1. next = 0
    BY DEF Init, ClientInit, SendInit
  <2> QED BY <2>1, SMT DEF CarryInv
<1> QED BY <1>1, <1>2, <1>4, <1>5, <1>6, <1>7, <1>8, <1>9 DEF TransferInv

\* No step of client, server or network breaks the invariant.
LEMMA TransferStep ==
    ASSUME TransferInv, WriterInv, [Next]_vars
    PROVE  TransferInv'
<1>1. CASE MainStep /\ UNCHANGED <<svars, rvars>>
  <2>1. CASE DialPath
    BY <1>1, <2>1, DialKeeps
  <2>2. CASE DialFails \/ PreambleFails
    BY <1>1, <2>2, FatalKeeps DEF DialFails, PreambleFails
  <2>3. CASE WritePreamble
    BY <1>1, <2>3, PreambleKeeps
  <2>4. CASE Sending
    <3>1. cpc = "send" /\ UNCHANGED <<cpc, ci>> /\ Dispatch(ChunkCount)
      BY <2>4 DEF Sending
    <3>2. CASE AssignChunk(ChunkCount)
      BY <1>1, <3>1, <3>2, AssignKeeps
    <3>3. CASE Enqueue
      BY <1>1, <3>1, <3>3, EnqueueKeeps
    <3>4. CASE CloseQueues(ChunkCount)
      BY <1>1, <3>1, <3>4, MainMovesOn
    <3> QED BY <3>1, <3>2, <3>3, <3>4 DEF Dispatch
  <2>5. CASE SendDone \/ Exit
    BY <1>1, <2>5, MainMovesOn
  <2> QED BY <1>1, <2>1, <2>2, <2>3, <2>4, <2>5 DEF MainStep
<1>2. ASSUME NEW p \in Paths, WriterStep(p), UNCHANGED <<svars, rvars>> PROVE TransferInv'
  BY <1>2, TakeKeeps, WriteKeeps, WriteFailsKeeps, ReturnKeeps DEF WriterStep
<1>3. ASSUME NEW p \in Paths, DrainStep(p), UNCHANGED <<svars, rvars>> PROVE TransferInv'
  BY <1>3, DrainKeeps
<1>4. CASE ServerStep /\ UNCHANGED cvars
  BY <1>4, ServerKeeps
<1>5. ASSUME NEW p \in Paths, Network(p), UNCHANGED <<cvars, svars, rvars>> PROVE TransferInv'
  BY <1>5, NetworkKeeps
<1>6. CASE UNCHANGED vars
  <2>0. SessionInv /\ NilInv /\ ClientTypeOK /\ PhaseInv /\ AckInv /\ StreamInv
        /\ OnceInv /\ CarryInv /\ 0 \in Paths
    BY PathAssumption DEF TransferInv, Paths
  <2>1. SessionInv' /\ NilInv'
    BY <1>6, <2>0, ClientKeepsSession DEF vars
  <2>2. /\ UNCHANGED <<cpc, ci, sched, n, next, targets, queue, qClosed, writers, cur, chunksSent,
                       bytesSent, drain>>
        /\ UNCHANGED <<preamble, up, fin, ack, cUp, sUp, hpc, chunks, corrupted,
                       bytesReceived, readErr, received>>
    BY <1>6 DEF vars, cvars, sendvars, batchvars, countvars, qvars, svars, rvars
  <2>3. ClientTypeOK' /\ PhaseInv' /\ AckInv'
    BY <2>0, <2>2 DEF ClientTypeOK, SendTypeOK, PhaseInv, AllWritten, AckInv
  <2>4. StreamInv'
    BY <2>0, <2>2 DEF StreamInv, BytesIn
  <2>5. OnceInv'
    BY <2>0, <2>2 DEF OnceInv, Elems
  <2>6. \A p \in Paths, c \in 0..(next - 1) : Carries(p, c) => Carries(p, c)'
    BY <2>2 DEF Carries, Broken, Elems
  <2>7. CarryInv'
    BY <2>0, <2>2, <2>6, CarryStep
  <2> QED BY <2>1, <2>3, <2>4, <2>5, <2>7 DEF TransferInv
<1> QED BY <1>1, <1>2, <1>3, <1>4, <1>5, <1>6 DEF Next, ClientStep, Terminating

\* No queue is filled or taken from behind a writer that has returned.
LEMMA WritersStep ==
    ASSUME TransferInv, WriterInv, [Next]_vars
    PROVE  WriterInv'
<1>0. /\ writers \subseteq Paths /\ cur \in [Paths -> SplitSeqs \cup {NoChunk}]
      /\ queue \in [Paths -> Seq(SplitSeqs)]
      /\ qClosed => targets = << >>
  BY TransferTypes DEF TransferInv, ClientTypeOK, SendTypeOK, PhaseInv
<1>u. ASSUME UNCHANGED <<qClosed, queue, writers, cur>> PROVE WriterInv'
  BY <1>u DEF WriterInv
<1>1. CASE Sending
  <2>1. CASE AssignChunk(ChunkCount)
    BY <1>u, <2>1 DEF AssignChunk
  <2>2. CASE Enqueue
    <3>1. writers' = writers /\ qClosed' = qClosed /\ ~qClosed
      BY <1>0, <2>2 DEF Enqueue
    <3> QED BY <3>1 DEF WriterInv
  <2>3. CASE CloseQueues(ChunkCount)
    BY <2>3 DEF CloseQueues, WriterInv
  <2> QED BY <1>1, <2>1, <2>2, <2>3 DEF Sending, Dispatch
<1>2. CASE UNCHANGED sendvars
  BY <1>2, <1>u DEF sendvars, batchvars
<1>3. ASSUME NEW p \in Paths, WriterStep(p) PROVE WriterInv'
  <2>1. CASE TakeChunk(p)
    BY <1>0, <2>1 DEF TakeChunk, WriterInv
  <2>2. CASE WriteChunk(p, cur[p], ChunkLen(cur[p])) \/ WriteFails(p)
    <3>1. /\ UNCHANGED <<qClosed, queue, writers>> /\ cur' = [cur EXCEPT ![p] = NoChunk]
      BY <2>2 DEF WriteChunk, WriteFails, batchvars
    <3> QED BY <1>0, <3>1 DEF WriterInv
  <2>3. CASE WriterReturns(p)
    BY <2>3 DEF WriterReturns, WriterInv, batchvars
  <2> QED BY <1>3, <2>1, <2>2, <2>3 DEF WriterStep
<1>4. ASSUME NEW p \in Paths, DrainStep(p) PROVE WriterInv'
  BY <1>4, <1>u DEF DrainStep, DrainClose, DrainAcked, DrainFails, batchvars
<1>5. CASE UNCHANGED cvars
  BY <1>5, <1>2 DEF cvars
<1>6. CASE MainStep
  BY <1>1, <1>2, <1>6 DEF MainStep, DialPath, DialFails, WritePreamble, PreambleFails,
                          Fatal, SendDone, Exit
<1> QED BY <1>2, <1>3, <1>4, <1>5, <1>6 DEF Next, ClientStep, Terminating, vars, cvars

\* The parts of the invariant hold together in every state of a transfer.
THEOREM TransferInvariant == Spec => []TransferInv
<1>1. Init => TransferInv /\ WriterInv
  BY TransferInitially DEF Init, ClientInit, SendInit, WriterInv
<1>2. TransferInv /\ WriterInv /\ [Next]_vars => TransferInv' /\ WriterInv'
  BY TransferStep, WritersStep
<1> QED BY <1>1, <1>2, PTL DEF Spec

\* Client, connections and session keep their types whatever the peer, the
\* network and the scheduler do.
THEOREM TransferTypesHold == Spec => []TypeOK
<1>1. TransferInv => TypeOK
  BY DEF TransferInv, SessionInv, TypeOK
<1> QED BY <1>1, TransferInvariant, PTL

-----------------------------------------------------------------------------
\* What the acks prove.

\* Once the handler has read path p to its end, the client's side of the
\* path is empty, so whatever path p answers for and neither lost nor damaged
\* is in the reassembler.
LEMMA PathEmptied ==
    ASSUME TransferInv, NEW p \in Paths, readErr[p] = "EOF"
    PROVE  /\ sess = "ready" /\ ReassemblerInv
           /\ next = ChunkCount /\ AllWritten /\ cpc \in {"drain", "exit"}
           /\ chunks[p] = chunksSent[p] /\ bytesReceived[p] = bytesSent[p]
           /\ \A c \in 0..(ChunkCount - 1) :
                 Carries(p, c) /\ corrupted[p] = 0 /\ ~Broken(p) => received[c]
<1>0. SessionInv /\ ClientTypeOK /\ PhaseInv /\ AckInv /\ StreamInv
  BY DEF TransferInv
<1>1. fin[p] /\ up[p] = << >> /\ hpc[p] \notin Early
  BY <1>0 DEF AckInv
<1>2. sess = "ready" /\ ReassemblerInv
  BY <1>0, <1>1 DEF SessionInv, JoinedInv
<1>3. cpc \in {"drain", "exit"} /\ AllWritten
  BY <1>0, <1>1 DEF PhaseInv
<1>4. targets = << >> /\ next = ChunkCount /\ queue[p] = << >> /\ cur[p] = NoChunk
  BY <1>0, <1>3 DEF PhaseInv, AllWritten
<1>5. /\ chunks[p] \in Nat /\ chunksSent[p] \in Nat
      /\ bytesReceived[p] \in Nat /\ bytesSent[p] \in Nat
  BY <1>0, TransferTypes
<1>6. chunks[p] = chunksSent[p] /\ bytesReceived[p] = bytesSent[p]
  <2>1. BytesIn(up[p]) = 0 /\ Len(up[p]) = 0
    <3>1. Len(up[p]) = 0 /\ 1..Len(up[p]) = {}
      BY <1>1
    <3> QED BY <3>1, SumEmpty DEF BytesIn
  <2>2. chunks[p] + Len(up[p]) = chunksSent[p] /\ bytesReceived[p] + BytesIn(up[p]) = bytesSent[p]
    BY <1>0 DEF StreamInv
  <2> QED BY <1>5, <2>1, <2>2
<1>7. ASSUME NEW c \in 0..(ChunkCount - 1), Carries(p, c), corrupted[p] = 0, ~Broken(p)
      PROVE  received[c]
  <2>1. c # NoChunk
    BY SMT DEF NoChunk
  <2> QED BY <1>1, <1>4, <1>7, <2>1, NoElems, SMT DEF Carries
<1> QED BY <1>2, <1>3, <1>4, <1>6, <1>7

\* The drain ack proves that every chunk and the FIN of its path arrived and
\* that the counters of the two sides agree.
THEOREM AcksProveDelivery == Spec => []AckProvesDelivery
<1>1. TransferInv => AckProvesDelivery
  <2> SUFFICES ASSUME TransferInv, NEW p \in Paths, drain[p] = "acked"
               PROVE  /\ readErr[p] = "EOF" /\ hpc[p] = "acked"
                      /\ chunks[p] = chunksSent[p]
                      /\ bytesReceived[p] = bytesSent[p]
    BY DEF AckProvesDelivery
  <2>1. readErr[p] = "EOF" /\ hpc[p] = "acked"
    BY DEF TransferInv, AckInv
  <2> QED BY <2>1, PathEmptied
<1> QED BY <1>1, TransferInvariant, PTL

\* All paths read to their end, none damaged and none lost: nothing is missing.
LEMMA NothingMissing ==
    ASSUME TransferInv,
           \A p \in Paths : readErr[p] = "EOF" /\ corrupted[p] = 0 /\ ~Broken(p)
    PROVE  Complete /\ sess = "ready"
<1>1. 0 \in Paths
  BY PathAssumption DEF Paths
<1>2. sess = "ready" /\ ReassemblerInv /\ next = ChunkCount
  BY <1>1, PathEmptied
<1>3. ASSUME NEW c \in 0..(ChunkCount - 1) PROVE received[c]
  <2>1. PICK p \in Paths : Carries(p, c)
    BY <1>2 DEF TransferInv, CarryInv
  <2> QED BY <2>1, PathEmptied
<1>4. NumChunks = ChunkCount
  BY DEF ChunkCount, NumChunks
<1> QED BY <1>2, <1>3, <1>4, CompletePayload

\* Acks on every path and no corruption mean that the verdict is, or will
\* be, "ok", whatever the scheduler did and whatever failed on the way.
THEOREM AllAcksMeanIntact == Spec => []AllAckedMeansIntact
<1>1. TransferInv => AllAckedMeansIntact
  <2> SUFFICES ASSUME TransferInv, \A p \in Paths : drain[p] = "acked" /\ corrupted[p] = 0
               PROVE  Complete /\ wg = 0 /\ result # "bad"
    BY DEF AllAckedMeansIntact
  <2>1. \A p \in Paths : readErr[p] = "EOF" /\ hpc[p] = "acked"
    BY DEF TransferInv, AckInv
  <2>2. Complete /\ sess = "ready"
    BY <2>1, NothingMissing DEF Broken
  <2>3. wg = 0
    <3>1. {p \in Paths : hpc[p] \notin Counted} = {}
      BY <2>1 DEF Counted
    <3> QED BY <2>2, <3>1, FS_EmptySet DEF TransferInv, SessionInv, WgCountsUnfinished
  <2>4. result # "bad"
    BY <2>2 DEF TransferInv, SessionInv, VerdictInv
  <2> QED BY <2>2, <2>3, <2>4
<1> QED BY <1>1, TransferInvariant, PTL

\* Under the redundant scheduler one acked, undamaged path is enough.
THEOREM RedundantNeedsOnePath == Spec => []OneGoodPathIsEnough
<1>1. TransferInv => OneGoodPathIsEnough
  <2> SUFFICES ASSUME TransferInv, sched = "redundant", NEW p \in Paths,
                      drain[p] = "acked", corrupted[p] = 0
               PROVE  Complete
    BY DEF OneGoodPathIsEnough
  <2>1. readErr[p] = "EOF" /\ ~Broken(p)
    BY DEF TransferInv, AckInv, Broken
  <2>2. ReassemblerInv /\ next = ChunkCount
    BY <2>1, PathEmptied
  <2>3. \A c \in 0..(ChunkCount - 1) : received[c]
    BY <2>1, <2>2, PathEmptied DEF TransferInv, CarryInv
  <2>4. NumChunks = ChunkCount
    BY DEF ChunkCount, NumChunks
  <2> QED BY <2>2, <2>3, <2>4, CompletePayload
<1> QED BY <1>1, TransferInvariant, PTL
-----------------------------------------------------------------------------
\* The client as the session's peer.

\* A step of the client is a step of a peer the session is proved against.
\* MaxPerPath bounds what such a peer may send on a path.
LEMMA ClientStepIsPeer ==
    ASSUME MaxPerPath >= ChunkCount, TransferInv, ClientStep, UNCHANGED <<svars, rvars>>
    PROVE  [ServerNext]_<<qvars, svars, rvars>>
<1>0. SessionInv /\ ClientTypeOK /\ PhaseInv /\ StreamInv /\ OnceInv /\ ci \in Paths
  BY DEF TransferInv, ClientTypeOK
<1>q. UNCHANGED qvars => [ServerNext]_<<qvars, svars, rvars>>
  OBVIOUS
<1>1. CASE DialPath
  <2>1. Dial(ci) /\ cpc = "dial" /\ ci >= ci
    BY <1>0, <1>1, SMT DEF DialPath, Paths
  <2>2. preamble[ci] = "none" /\ hpc[ci] = "none" /\ ~cUp[ci] /\ ~sUp[ci]
    BY <1>0, <2>1 DEF PhaseInv
  <2>3. PeerStep(ci)
    BY <2>1, <2>2 DEF PeerStep
  <2> QED BY <1>0, <2>3 DEF ServerNext
<1>2. CASE DialFails \/ PreambleFails \/ Exit
  BY <1>2 DEF DialFails, PreambleFails, Fatal, Exit, PeerGone, ServerNext
<1>3. CASE WritePreamble
  <2>1. SendPreamble(ci) /\ cpc = "hello" /\ ci >= ci
    BY <1>0, <1>3, SMT DEF WritePreamble, Paths
  <2>2. preamble[ci] = "none"
    BY <1>0, <2>1 DEF PhaseInv
  <2>3. PeerStep(ci)
    BY <2>1, <2>2 DEF PeerStep
  <2> QED BY <1>0, <2>3 DEF ServerNext
<1>4. CASE Sending \/ SendDone
  BY <1>4, <1>q DEF Sending, SendDone, Dispatch, AssignChunk, Enqueue, CloseQueues
<1>5. ASSUME NEW p \in Paths, WriterStep(p) PROVE [ServerNext]_<<qvars, svars, rvars>>
  <2>1. CASE TakeChunk(p) \/ WriteFails(p) \/ WriterReturns(p)
    BY <1>q, <2>1 DEF TakeChunk, WriteFails, WriterReturns
  <2>2. CASE WriteChunk(p, cur[p], ChunkLen(cur[p]))
    <3>1. cur[p] # NoChunk /\ SendChunk(p, cur[p])
      BY <2>2 DEF WriteChunk
    <3>2. cur[p] \in SplitSeqs
      BY <1>0, <3>1, TransferTypes
    <3>3. ~AllWritten
      BY <3>1 DEF AllWritten
    <3>4. cpc = "send"
      BY <1>0, <3>1, <3>3 DEF PhaseInv, ClientTypeOK
    <3>5. preamble[p] # "none" /\ ~fin[p]
      BY <1>0, <3>4 DEF PhaseInv
    <3>6. chunks[p] + Len(up[p]) < MaxPerPath
      <4>1. /\ chunksSent[p] \in Nat /\ next \in 0..ChunkCount /\ ChunkCount \in Nat
            /\ queue[p] \in Seq(SplitSeqs)
        BY <1>0, TransferTypes
      <4>2. Len(queue[p]) \in Nat
        BY <4>1
      <4> DEFINE t == IF p \in Elems(targets) THEN 1 ELSE 0
                 k == IF cur[p] = NoChunk THEN 0 ELSE 1
      <4>3. t \in Nat /\ k = 1
        BY <3>1
      <4>4. chunksSent[p] + Len(queue[p]) + k + t <= next
        BY <1>0 DEF OnceInv
      <4>5. chunks[p] + Len(up[p]) = chunksSent[p]
        BY <1>0 DEF StreamInv
      <4> HIDE DEF t, k
      <4> QED BY <4>1, <4>2, <4>3, <4>4, <4>5, MaxPerPathAssumption, SMT
    <3>7. PeerStep(p)
      BY <3>1, <3>2, <3>5, <3>6 DEF PeerStep
    <3> QED BY <3>7 DEF ServerNext
  <2> QED BY <1>5, <2>1, <2>2 DEF WriterStep
<1>6. ASSUME NEW p \in Paths, DrainStep(p) PROVE [ServerNext]_<<qvars, svars, rvars>>
  <2>1. CASE DrainAcked(p) \/ DrainFails(p)
    BY <1>q, <2>1 DEF DrainAcked, DrainFails
  <2>2. CASE DrainClose(p)
    <3>1. CloseStream(p) /\ drain[p] = "none" /\ cpc = "drain"
      BY <1>6, <2>2 DEF DrainClose, DrainStep
    <3>2. preamble[p] # "none" /\ ~fin[p]
      BY <1>0, <3>1 DEF PhaseInv
    <3>3. PeerStep(p)
      BY <3>1, <3>2 DEF PeerStep
    <3> QED BY <3>3 DEF ServerNext
  <2> QED BY <1>6, <2>1, <2>2 DEF DrainStep
<1> QED BY <1>1, <1>2, <1>3, <1>4, <1>5, <1>6 DEF ClientStep, MainStep

\* The transfer implements the session's specification: the client greets a
\* path before it sends on it, sends only chunks of the transfer, at most
\* once per path, and nothing after the FIN.
THEOREM ProperPeer ==
    ASSUME MaxPerPath >= ChunkCount
    PROVE  Spec => ClientIsAProperPeer
<1>1. Init => InitSession
  BY DEF Init, InitSession
<1>2. TransferInv /\ [Next]_vars => [ServerNext]_<<qvars, svars, rvars>>
  <2> SUFFICES ASSUME TransferInv, [Next]_vars
               PROVE  [ServerNext]_<<qvars, svars, rvars>>
    OBVIOUS
  <2>1. CASE ClientStep /\ UNCHANGED <<svars, rvars>>
    BY <2>1, ClientStepIsPeer
  <2>2. CASE ServerStep
    BY <2>2 DEF ServerNext
  <2>3. ASSUME NEW p \in Paths, Network(p), UNCHANGED <<svars, rvars>>
        PROVE  [ServerNext]_<<qvars, svars, rvars>>
    BY <2>3 DEF ServerNext, PeerStep
  <2>4. CASE UNCHANGED vars
    BY <2>4 DEF vars
  <2> QED BY <2>1, <2>2, <2>3, <2>4 DEF Next, Terminating
<1> QED BY <1>1, <1>2, TransferInvariant, PTL DEF Spec, ServerSpec, ClientIsAProperPeer

\* So the verdict the session promises is the verdict of the whole transfer.
THEOREM TransferKeepsPromise ==
    ASSUME MaxPerPath >= ChunkCount
    PROVE  Spec => KeepsItsPromise
BY ProperPeer, SessionImplementsVerdict, PTL DEF ClientIsAProperPeer

-----------------------------------------------------------------------------
\* Without faults.

\* No end of a connection goes away while main is still at work.
LEMMA CleanAlive ==
    ASSUME TransferInv, CleanInv, NEW p \in Paths, cpc # "exit",
           hpc[p] # "none" \/ cpc # "dial" \/ sUp[p]
    PROVE  cUp[p] /\ sUp[p]
<1>1. ci \in Paths /\ PhaseInv
  BY DEF TransferInv, ClientTypeOK
<1>2. cpc = "dial" => p < ci
  <2>1. p < ci \/ p >= ci
    BY <1>1, PathAssumption, SMT DEF Paths
  <2> QED BY <1>1, <2>1 DEF PhaseInv
<1> QED BY <1>2 DEF CleanInv

\* The client's steps without faults.
LEMMA CleanClient ==
    ASSUME Faults = {}, TransferInv, CleanInv, ClientStep, UNCHANGED <<svars, rvars>>
    PROVE  CleanInv'
<1>0. /\ ClientTypeOK /\ PhaseInv /\ ci \in Paths
      /\ cUp \in [Paths -> BOOLEAN] /\ sUp \in [Paths -> BOOLEAN]
      /\ drain \in [Paths -> {"none", "wait", "acked", "gaveup"}]
  BY TransferTypes DEF TransferInv, ClientTypeOK
<1>1. UNCHANGED <<readErr, corrupted, hpc>>
  BY DEF svars
<1>2. CASE DialPath
  <2>1. /\ cpc = "dial" /\ cUp' = [cUp EXCEPT ![ci] = TRUE] /\ sUp' = [sUp EXCEPT ![ci] = TRUE]
        /\ drain' = drain
        /\ \/ ci + 1 < NumPaths /\ ci' = ci + 1 /\ cpc' = cpc
           \/ ci + 1 = NumPaths /\ ci' = 0 /\ cpc' = "hello"
    BY <1>0, <1>2, AdvanceFacts DEF DialPath, Dial, sendvars
  <2>2. ASSUME NEW p \in Paths, cpc' = "dial" => p < ci' PROVE cUp'[p] /\ sUp'[p]
    <3>1. p = ci \/ p < ci
      BY <1>0, <2>1, <2>2, PathAssumption, SMT DEF Paths
    <3> QED BY <1>0, <2>1, <3>1 DEF CleanInv
  <2> QED BY <1>1, <2>1, <2>2 DEF CleanInv
<1>3. ~DialFails /\ ~PreambleFails
  BY <1>0 DEF DialFails, PreambleFails, CleanInv
<1>4. CASE WritePreamble
  <2>1. /\ cpc = "hello" /\ UNCHANGED <<cUp, sUp, drain>>
        /\ cpc' \in {"hello", "send"}
    BY <1>0, <1>4, AdvanceFacts DEF WritePreamble, SendPreamble, sendvars
  <2> QED BY <1>1, <2>1 DEF CleanInv
<1>5. CASE Sending \/ SendDone
  <2>1. /\ UNCHANGED <<cUp, sUp, drain>>
        /\ cpc = "send" /\ cpc' \in {"send", "drain"}
    BY <1>5 DEF Sending, SendDone, Dispatch, AssignChunk, Enqueue, CloseQueues, qvars, sendvars
  <2> QED BY <1>1, <2>1 DEF CleanInv
<1>6. CASE Exit
  <2>1. cpc' = "exit" /\ drain' = drain /\ Drained
    BY <1>6 DEF Exit, sendvars
  <2>2. \A p \in Paths : drain[p] = "acked"
    BY <2>1 DEF Drained, CleanInv
  <2> QED BY <1>1, <2>1, <2>2 DEF CleanInv
<1>7. ASSUME NEW p \in Paths, WriterStep(p) PROVE CleanInv'
  <2>1. UNCHANGED <<cUp, sUp, drain, cpc, ci>>
    BY <1>7 DEF WriterStep, TakeChunk, WriteChunk, SendChunk, WriteFails, WriterReturns, qvars
  <2> QED BY <1>1, <2>1 DEF CleanInv
<1>8. ASSUME NEW p \in Paths, DrainStep(p) PROVE CleanInv'
  <2>1. /\ cpc = "drain" /\ UNCHANGED <<cUp, sUp, cpc, ci>>
        /\ \A q \in Paths : drain'[q] = drain[q] \/ drain'[q] \in {"wait", "acked"}
    BY <1>0, <1>8 DEF DrainStep, DrainClose, CloseStream, DrainAcked, DrainFails, qvars, CleanInv
  <2> QED BY <1>1, <2>1 DEF CleanInv
<1> QED BY <1>2, <1>3, <1>4, <1>5, <1>6, <1>7, <1>8 DEF ClientStep, MainStep

\* The session's steps without faults.
LEMMA CleanServer ==
    ASSUME Faults = {}, TransferInv, CleanInv, ServerStep, UNCHANGED cvars
    PROVE  CleanInv'
<1>0. /\ AckInv /\ cUp \in [Paths -> BOOLEAN] /\ sUp \in [Paths -> BOOLEAN]
      /\ hpc \in [Paths -> Handlers] /\ corrupted \in [Paths -> Nat]
      /\ readErr \in [Paths -> {"none", "EOF", "err"}]
  BY TransferTypes DEF TransferInv
<1>1. UNCHANGED <<cpc, ci, drain>>
  BY DEF cvars, sendvars
<1>2. \A p \in Paths : drain[p] = "acked" => hpc[p] = "acked"
  BY <1>0 DEF AckInv
<1>3. \A p \in Paths : hpc[p] \notin {"none", "acked"} => sUp[p]
  BY <1>2, CleanAlive DEF CleanInv
<1>4. ASSUME NEW p \in Paths, HandlerStep(p) PROVE CleanInv'
  <2>1. ~AcceptFails(p) /\ ~WaitReadyTimesOut(p) /\ ~ReadCorruptChunk(p)
    BY <1>3, <1>4 DEF AcceptFails, Abort, At, WaitReadyTimesOut, ReadCorruptChunk
  <2>2. ~CloseNow(p)
    <3> SUFFICES ASSUME hpc[p] = "counted" PROVE readErr[p] = "EOF" /\ sUp[p]
      BY DEF CloseNow, At
    <3>1. readErr[p] \notin {"none", "err"}
      BY <1>0 DEF AckInv, Early, CleanInv
    <3> QED BY <1>0, <1>3, <3>1
  <2>3. CASE StopReading(p)
    <3>1. /\ hpc' = [hpc EXCEPT ![p] = "done"] /\ readErr' = [readErr EXCEPT ![p] = "EOF"]
          /\ UNCHANGED <<corrupted, cUp, sUp>>
      BY <1>3, <2>3 DEF StopReading, At, qvars
    <3> QED BY <1>0, <1>1, <3>1 DEF CleanInv
  <2>4. ASSUME NEW y, y \notin {"aborted", "closed"}, hpc' = [hpc EXCEPT ![p] = y],
               UNCHANGED <<readErr, corrupted, cUp, sUp>>
        PROVE  CleanInv'
    BY <1>0, <1>1, <2>4 DEF CleanInv
  <2>5. CASE Accept(p) \/ WaitReady(p) \/ LogDelivery(p) \/ RecordPath(p) \/ WgDone(p)
    BY <2>4, <2>5 DEF Accept, WaitReady, LogDelivery, RecordPath, WgDone, At, qvars
  <2>6. CASE Start(p) \/ WriteAck(p) \/ ReadChunk(p)
    BY <2>4, <2>6 DEF Start, StartAdding, WriteAck, SendAck, ReadChunk, ReceiveChunk, At, qvars
  <2>7. CASE GetOrCreate(p)
    <3> DEFINE y == IF p = 0 THEN "start" ELSE "wait"
    <3>1. hpc' = [hpc EXCEPT ![p] = y] /\ y \notin {"aborted", "closed"}
      BY <2>7 DEF GetOrCreate, At
    <3> HIDE DEF y
    <3> QED BY <2>4, <2>7, <3>1 DEF GetOrCreate, ReceivePreamble
  <2> QED BY <1>4, <2>1, <2>2, <2>3, <2>5, <2>6, <2>7 DEF HandlerStep
<1>5. CASE Finalize
  BY <1>1, <1>5 DEF Finalize, FinalizeAs, qvars, CleanInv
<1> QED BY <1>4, <1>5 DEF ServerStep

\* With no faults a client that has exited has every ack, and the verdict
\* is never "bad": main's closes cannot have cut off data in flight.
THEOREM NoFaultsNoLoss ==
    ASSUME Faults = {}
    PROVE  Spec => []CleanExit
<1>1. Init => CleanInv
  BY SMT DEF Init, ClientInit, SendInit, QuicInit, ServerInit, CleanInv, Paths
<1>2. TransferInv /\ CleanInv /\ [Next]_vars => CleanInv'
  <2> SUFFICES ASSUME TransferInv, CleanInv, [Next]_vars PROVE CleanInv'
    OBVIOUS
  <2>1. CASE ClientStep /\ UNCHANGED <<svars, rvars>>
    BY <2>1, CleanClient
  <2>2. CASE ServerStep /\ UNCHANGED cvars
    BY <2>2, CleanServer
  <2>3. ASSUME NEW p \in Paths, Network(p), UNCHANGED <<cvars, svars, rvars>>
        PROVE  CleanInv'
    <3>1. UNCHANGED <<cpc, ci, drain, readErr, corrupted, hpc>>
      BY <2>3 DEF cvars, sendvars, svars
    <3>2. cpc = "exit"
      <4> SUFFICES ASSUME cpc # "exit" PROVE FALSE
        OBVIOUS
      <4>1. CASE ServerTornDown(p)
        BY <4>1, CleanAlive DEF ServerTornDown
      <4>2. CASE ClientTornDown(p)
        <5>1. cpc = "dial" => p < ci
          <6>1. ci \in Paths /\ PhaseInv
            BY DEF TransferInv, ClientTypeOK
          <6>2. p < ci \/ p >= ci
            BY <6>1, PathAssumption, SMT DEF Paths
          <6> QED BY <4>2, <6>1, <6>2 DEF PhaseInv, ClientTornDown
        <5> QED BY <4>2, <5>1 DEF CleanInv, ClientTornDown
      <4> QED BY <2>3, <4>1, <4>2 DEF Network, PathLost
    <3> QED BY <3>1, <3>2 DEF CleanInv
  <2>4. CASE UNCHANGED vars
    BY <2>4 DEF vars, cvars, sendvars, qvars, svars, CleanInv
  <2> QED BY <2>1, <2>2, <2>3, <2>4 DEF Next, Terminating
<1>3. TransferInv /\ CleanInv => CleanExit
  <2> SUFFICES ASSUME TransferInv, CleanInv, result # "none" PROVE result # "bad"
    BY DEF CleanInv, CleanExit
  <2>1. sess = "ready" /\ wg = 0 /\ SessionInv /\ AckInv /\ PhaseInv
    BY DEF TransferInv, SessionInv, VerdictInv
  <2>2. \A p \in Paths : hpc[p] \in Counted
    BY <2>1, ZeroMeansAll
  <2>3. \A p \in Paths : readErr[p] \in {"none", "EOF", "err"}
    BY <2>1, TransferTypes DEF TransferInv
  <2>4. \A p \in Paths : readErr[p] = "EOF" /\ corrupted[p] = 0
    BY <2>1, <2>2, <2>3 DEF AckInv, Early, Counted, CleanInv
  <2>5. ASSUME NEW p \in Paths PROVE ~Broken(p)
    <3>1. cpc \in {"drain", "exit"}
      BY <2>4, PathEmptied
    <3> QED BY <3>1 DEF CleanInv, Broken
  <2>6. Complete
    BY <2>4, <2>5, NothingMissing
  <2> QED BY <2>1, <2>4, <2>6 DEF SessionInv, VerdictInv
<1> QED BY <1>1, <1>2, <1>3, TransferInvariant, PTL DEF Spec
=============================================================================
