------------------------ MODULE ServerSessionProofs -------------------------
(***************************************************************************)
(* Proofs about the reassembler and about a one-shot session on the        *)
(* server, which contains one, for any number of paths, any payload and    *)
(* chunk size, any faults, and any well-formed client.                     *)
(***************************************************************************)
EXTENDS ServerSession, Counting

-----------------------------------------------------------------------------
\* The reassembler.  What has to be shown first is that Split's loop and
\* NewReassembler's rounded-up division agree on the chunks there are
\* (ChunkNumbers), and that a byte belongs to exactly the chunk its offset
\* says (ChunkBytes).

\* Split (chunk.go:57) and NewReassembler (chunk.go:148) agree on the chunks.
LEMMA ChunkNumbers ==
    /\ NumChunks \in Nat \ {0}
    /\ SplitSeqs = 0..(NumChunks - 1)
BY SizeAssumption, PiecesOf DEF NumChunks, SplitSeqs

\* The chunk of a byte is a chunk of the transfer.
LEMMA ChunkOfByte ==
    ASSUME NEW b \in Bytes
    PROVE  b \div ChunkSize \in 0..(NumChunks - 1)
<1> USE SizeAssumption
<1>1. b \in Nat /\ b < TotalSize
  BY SMT DEF Bytes
<1>2. /\ b \div ChunkSize \in Nat
      /\ ChunkSize * (b \div ChunkSize) <= b
  BY <1>1, DivFacts
<1> DEFINE q == b \div ChunkSize
<1>3. q \in Nat /\ q * ChunkSize < TotalSize
  BY <1>1, <1>2, SMT
<1>4. q \in SplitSeqs
  BY <1>3, ProductOrder, SMT DEF SplitSeqs
<1> QED BY <1>4, ChunkNumbers

\* The extent of a chunk: which bytes it covers, and how many.
LEMMA ChunkBytes ==
    ASSUME NEW seq \in SplitSeqs
    PROVE  /\ seq \in Nat
           /\ seq * ChunkSize \in Nat
           /\ ChunkLen(seq) \in Nat \ {0}
           /\ seq * ChunkSize + ChunkLen(seq) <= TotalSize
           /\ (seq * ChunkSize) \div ChunkSize = seq
           /\ \A b \in Bytes :
                 b \in (seq * ChunkSize)..(seq * ChunkSize + ChunkLen(seq) - 1)
                     <=> b \div ChunkSize = seq
<1> USE SizeAssumption
<1> DEFINE o == seq * ChunkSize
<1>1. seq \in Nat /\ o \in Nat /\ o < TotalSize
  BY ProductOrder, SMT DEF SplitSeqs
<1>2. ChunkLen(seq) \in Nat \ {0} /\ o + ChunkLen(seq) <= TotalSize /\ ChunkLen(seq) <= ChunkSize
  BY <1>1, SMT DEF ChunkLen
<1>3. o \div ChunkSize = seq
  <2>1. seq * ChunkSize <= o /\ o < seq * ChunkSize + ChunkSize
    BY <1>1, SMT
  <2> HIDE DEF o
  <2> QED BY <1>1, <2>1, DivUnique
<1>4. ASSUME NEW b \in Bytes, b \in o..(o + ChunkLen(seq) - 1)
      PROVE  b \div ChunkSize = seq
  <2>1. b \in Nat /\ seq * ChunkSize <= b /\ b < seq * ChunkSize + ChunkSize
    BY <1>1, <1>2, <1>4, SMT DEF Bytes
  <2> QED BY <1>1, <2>1, DivUnique
<1>5. ASSUME NEW b \in Bytes, b \div ChunkSize = seq
      PROVE  b \in o..(o + ChunkLen(seq) - 1)
  <2>1. b \in Nat /\ b < TotalSize
    BY SMT DEF Bytes
  <2>2. ChunkSize * seq <= b /\ b < ChunkSize * seq + ChunkSize
    BY <2>1, <1>5, DivFacts
  <2> QED BY <1>1, <2>1, <2>2, SMT DEF ChunkLen
<1> QED BY <1>1, <1>2, <1>3, <1>4, <1>5

-----------------------------------------------------------------------------
\* The inductive invariant.
ReassemblerInv ==
    /\ ReassemblerTypeOK
    /\ RemainingCountsMissing
    /\ BufferMatchesReceived
    /\ UniqueBytesCounted

Missing == {i \in 0..(NumChunks - 1) : ~received[i]}
Filled == {b \in Bytes : buf[b] # 0}

\* The slots still missing can be counted.
LEMMA MissingFinite == IsFiniteSet(Missing)
<1>1. NumChunks - 1 \in Int
  BY ChunkNumbers, SMT
<1>2. IsFiniteSet(0..(NumChunks - 1))
  BY <1>1, FS_Interval
<1> QED BY <1>2, FS_Subset DEF Missing

\* The first write of a chunk, as every caller of Reassembler.Write makes it.
LEMMA WritePreserves ==
    ASSUME ReassemblerInv, NEW seq \in SplitSeqs, Write(ChunkAt(seq))
    PROVE  ReassemblerInv'
<1> USE SizeAssumption
<1> DEFINE o == seq * ChunkSize
           L == ChunkLen(seq)
           c == ChunkAt(seq)
<1>1. /\ seq \in Nat /\ o \in Nat /\ L \in Nat \ {0} /\ o + L <= TotalSize
      /\ o \div ChunkSize = seq
      /\ \A b \in Bytes : b \in o..(o + L - 1) <=> b \div ChunkSize = seq
  BY ChunkBytes
<1>2. /\ c.offset = o /\ c.len = L
      /\ \A j \in 0..(L - 1) : c.data[j] = Payload[o + j]
  BY DEF ChunkAt
<1>3. seq \in 0..(NumChunks - 1) /\ NumChunks \in Nat
  BY ChunkNumbers
<1> HIDE DEF o, L, c
<1>4. DOMAIN received = 0..(NumChunks - 1) /\ DOMAIN buf = Bytes
  BY DEF ReassemblerInv, ReassemblerTypeOK
<1>5. CASE UNCHANGED rvars
  BY <1>5 DEF ReassemblerInv, ReassemblerTypeOK, RemainingCountsMissing,
      BufferMatchesReceived, UniqueBytesCounted, rvars
<1>6. CASE /\ ~received[seq]
           /\ buf' = [b \in DOMAIN buf |->
                         IF b \in o..(o + L - 1) THEN c.data[b - o] ELSE buf[b]]
           /\ received' = [received EXCEPT ![seq] = TRUE]
           /\ remaining' = remaining - 1
           /\ receivedBytes' = receivedBytes + L
  <2>1. \A b \in Bytes : buf'[b] = IF b \div ChunkSize = seq THEN Payload[b] ELSE buf[b]
    <3>1. ASSUME NEW b \in Bytes, b \in o..(o + L - 1)
          PROVE  c.data[b - o] = Payload[b]
      <4>1. b - o \in 0..(L - 1) /\ o + (b - o) = b
        BY <3>1, <1>1, SMT DEF Bytes
      <4> QED BY <4>1, <1>2
    <3> QED BY <3>1, <1>1, <1>4, <1>6
  <2>2. \A b \in Bytes : Payload[b] \in 1..TotalSize
    BY SMT DEF Payload, Bytes
  <2>3. buf' \in [Bytes -> 0..TotalSize]
    <3>1. \A b \in Bytes : buf'[b] \in 0..TotalSize
      BY <2>1, <2>2, SMT DEF ReassemblerInv, ReassemblerTypeOK
    <3>2. buf' = [b \in Bytes |-> buf'[b]]
      BY <1>4, <1>6
    <3> QED BY <3>1, <3>2
  <2>4. received' \in [0..(NumChunks - 1) -> BOOLEAN]
    BY <1>6, <1>3 DEF ReassemblerInv, ReassemblerTypeOK
  <2>5. Missing' = Missing \ {seq} /\ seq \in Missing
    BY <1>6, <1>3, <1>4 DEF Missing, ReassemblerInv, ReassemblerTypeOK
  <2>6. IsFiniteSet(Missing)
    BY MissingFinite
  <2>7. remaining' = Cardinality(Missing') /\ remaining' \in 0..NumChunks
    <3>1. Cardinality(Missing') = Cardinality(Missing) - 1
      BY <2>5, <2>6, FS_RemoveElement
    <3>2. remaining = Cardinality(Missing)
      BY <1>4 DEF ReassemblerInv, RemainingCountsMissing, Missing
    <3>3. Cardinality(Missing') \in Nat
      BY <2>5, <2>6, FS_RemoveElement, FS_CardinalityType
    <3> QED BY <3>1, <3>2, <3>3, <1>6, <1>3, SMT DEF ReassemblerInv, ReassemblerTypeOK
  <2>8. BufferMatchesReceived'
    <3>1. ASSUME NEW b \in Bytes
          PROVE  received'[b \div ChunkSize] = (b \div ChunkSize = seq \/ received[b \div ChunkSize])
      BY <1>6, <1>4, ChunkOfByte DEF ReassemblerInv, ReassemblerTypeOK
    <3> QED BY <3>1, <2>1 DEF BufferMatchesReceived, ReassemblerInv
  <2>9. Filled' = Filled \cup (o..(o + L - 1)) /\ Filled \cap (o..(o + L - 1)) = {}
    <3>1. o..(o + L - 1) \subseteq Bytes
      BY <1>1, SMT DEF Bytes
    <3>2. \A b \in Bytes : b \div ChunkSize = seq => buf[b] = 0
      BY <1>6 DEF ReassemblerInv, BufferMatchesReceived
    <3>3. \A b \in Bytes : Payload[b] # 0
      BY <2>2, SMT
    <3> QED BY <3>1, <3>2, <3>3, <2>1, <1>1 DEF Filled
  <2>10. UniqueBytesCounted'
    <3>1. IsFiniteSet(Filled) /\ IsFiniteSet(o..(o + L - 1))
      <4>1. IsFiniteSet(Bytes) /\ Filled \subseteq Bytes
        BY FS_Interval DEF Bytes, Filled
      <4> QED BY <4>1, <1>1, RunOfNumbers, FS_Subset
    <3>2. Cardinality(o..(o + L - 1)) = L
      BY <1>1, RunOfNumbers
    <3>3. Cardinality(Filled') = Cardinality(Filled) + L - Cardinality({})
      BY <3>1, <3>2, <2>9, FS_Union
    <3> QED BY <3>1, <3>3, <1>1, <1>6, FS_EmptySet, FS_CardinalityType, SMT
        DEF ReassemblerInv, UniqueBytesCounted, Filled
  <2>11. receivedBytes' \in Nat
    BY <1>6, <1>1, SMT DEF ReassemblerInv, ReassemblerTypeOK
  <2> QED BY <2>3, <2>4, <2>7, <2>8, <2>10, <2>11
      DEF ReassemblerInv, ReassemblerTypeOK, RemainingCountsMissing, Missing
<1> QED BY <1>1, <1>2, <1>5, <1>6 DEF Write, c

\* A fresh reassembler (chunk.go:149-154).
LEMMA FreshReassembler ==
    ReassemblerInit => ReassemblerInv
<1> SUFFICES ASSUME ReassemblerInit PROVE ReassemblerInv
  OBVIOUS
<1> USE SizeAssumption
<1>1. NumChunks \in Nat
  BY ChunkNumbers
<1>2. ReassemblerTypeOK
  BY <1>1, SMT DEF ReassemblerInit, ReassemblerTypeOK, Bytes
<1>3. RemainingCountsMissing
  <2>1. {i \in DOMAIN received : ~received[i]} = 0..(0 + NumChunks - 1)
    BY <1>1, SMT DEF ReassemblerInit
  <2> QED BY <2>1, <1>1, RunOfNumbers DEF ReassemblerInit, RemainingCountsMissing
<1>4. BufferMatchesReceived
  BY ChunkOfByte DEF ReassemblerInit, BufferMatchesReceived
<1>5. UniqueBytesCounted
  <2>1. {b \in Bytes : buf[b] # 0} = {}
    BY DEF ReassemblerInit
  <2> QED BY <2>1, FS_EmptySet DEF ReassemblerInit, UniqueBytesCounted
<1> QED BY <1>2, <1>3, <1>4, <1>5 DEF ReassemblerInv

\* What the invariant says when nothing is missing any more.
LEMMA CompletePayload ==
    ASSUME ReassemblerInv
    PROVE  /\ Complete <=> \A i \in 0..(NumChunks - 1) : received[i]
           /\ Complete <=> buf = Payload
           /\ CompleteMeansPayload
<1> USE SizeAssumption
<1>1. DOMAIN received = 0..(NumChunks - 1) /\ DOMAIN buf = Bytes
      /\ NumChunks \in Nat /\ buf = [b \in Bytes |-> buf[b]]
  BY ChunkNumbers DEF ReassemblerInv, ReassemblerTypeOK
<1>2. IsFiniteSet(Missing)
  BY MissingFinite
<1>3. remaining = Cardinality(Missing)
  BY <1>1 DEF ReassemblerInv, RemainingCountsMissing, Missing
<1>4. Complete <=> Missing = {}
  BY <1>2, <1>3, FS_EmptySet DEF Complete
<1>5. Complete <=> \A i \in 0..(NumChunks - 1) : received[i]
  BY <1>4 DEF Missing
<1>6. ASSUME Complete PROVE buf = Payload
  <2>1. \A b \in Bytes : buf[b] = Payload[b]
    BY <1>5, <1>6, ChunkOfByte DEF ReassemblerInv, BufferMatchesReceived
  <2> QED BY <2>1, <1>1 DEF Payload, Bytes
<1>7. ASSUME buf = Payload PROVE Complete
  <2>1. ASSUME NEW i \in 0..(NumChunks - 1) PROVE received[i]
    <3>1. i \in SplitSeqs
      BY ChunkNumbers
    <3>2. i * ChunkSize \in Bytes /\ (i * ChunkSize) \div ChunkSize = i
      BY <3>1, ChunkBytes, SMT DEF Bytes
    <3> DEFINE b == i * ChunkSize
    <3>3. b \in Bytes /\ b \div ChunkSize = i
      BY <3>2
    <3> HIDE DEF b
    <3>4. buf[b] # 0
      BY <1>7, <3>3, SMT DEF Payload, Bytes
    <3> QED BY <3>3, <3>4 DEF ReassemblerInv, BufferMatchesReceived
  <2> QED BY <2>1, <1>5
<1>8. ASSUME Complete PROVE receivedBytes = TotalSize
  <2>1. {b \in Bytes : buf[b] # 0} = 0..(0 + TotalSize - 1)
    BY <1>6, <1>8, SMT DEF Payload, Bytes
  <2> QED BY <2>1, RunOfNumbers DEF ReassemblerInv, UniqueBytesCounted
<1> QED BY <1>5, <1>6, <1>7, <1>8 DEF CompleteMeansPayload

-----------------------------------------------------------------------------
\* For every payload and chunk size, and whatever the order and number of the
\* chunks written, the invariant holds of Reassembler.Write (chunk.go:161).
THEOREM ReassemblerInvariant == ReassemblerSpec => []ReassemblerInv
<1>1. ReassemblerInit => ReassemblerInv
  BY FreshReassembler
<1>2. ReassemblerInv /\ [ReassemblerNext]_rvars => ReassemblerInv'
  <2> SUFFICES ASSUME ReassemblerInv, [ReassemblerNext]_rvars
               PROVE  ReassemblerInv'
    OBVIOUS
  <2>1. CASE ReassemblerNext
    <3>1. PICK seq \in SplitSeqs : Write(ChunkAt(seq))
      BY <2>1 DEF ReassemblerNext, Split
    <3> QED BY <3>1, WritePreserves
  <2>2. CASE UNCHANGED rvars
    BY <2>2 DEF ReassemblerInv, ReassemblerTypeOK, RemainingCountsMissing,
        BufferMatchesReceived, UniqueBytesCounted, rvars
  <2> QED BY <2>1, <2>2
<1> QED BY <1>1, <1>2, PTL DEF ReassemblerSpec

\* The types of the reassembler's fields; remaining never goes negative.
THEOREM ReassemblerTypes == ReassemblerSpec => []ReassemblerTypeOK
<1>1. ReassemblerInv => ReassemblerTypeOK
  BY DEF ReassemblerInv
<1> QED BY <1>1, ReassemblerInvariant, PTL

\* remaining counts the missing chunks, ReceivedBytes the bytes written, and
\* the buffer holds the payload on exactly the chunks received.
THEOREM CountersStayExact == ReassemblerSpec => []CountersExact
<1>1. ReassemblerInv => CountersExact
  BY DEF ReassemblerInv, CountersExact
<1> QED BY <1>1, ReassemblerInvariant, PTL

\* Complete() is true only of the whole payload: the reassembly is correct.
THEOREM ReassemblyCorrect == ReassemblerSpec => []CompleteMeansPayload
<1>1. ReassemblerInv => CompleteMeansPayload
  BY CompletePayload
<1> QED BY <1>1, ReassemblerInvariant, PTL

-----------------------------------------------------------------------------
\* The session.

Rows == [index : Paths, bytes : Nat, chunks : Nat, corrupted : Nat]

-----------------------------------------------------------------------------
\* The connections: what any operation of QuicPath does to their types.

QuicStep(p) ==
    \/ Dial(p) \/ SendPreamble(p) \/ CloseStream(p) \/ ClientCloseAll
    \/ ReceivePreamble(p) \/ ReceiveChunk(p) \/ SendAck(p) \/ ServerClose(p)
    \/ Network(p) \/ \E c \in SplitSeqs : SendChunk(p, c)

\* No operation on a connection leaves the types of the connections.
LEMMA QuicTypes ==
    ASSUME QuicTypeOK(SplitSeqs), NEW p \in Paths, QuicStep(p) \/ UNCHANGED qvars
    PROVE  QuicTypeOK(SplitSeqs)'
<1>1. CASE ReceiveChunk(p)
  <2>1. up[p] \in Seq(SplitSeqs) /\ up[p] # << >> /\ Len(up[p]) <= Window
    BY <1>1 DEF ReceiveChunk, QuicTypeOK
  <2>2. Tail(up[p]) \in Seq(SplitSeqs) /\ Len(Tail(up[p])) <= Window
    BY <2>1, WindowAssumption
  <2> QED BY <1>1, <2>2 DEF ReceiveChunk, QuicTypeOK
<1>2. ASSUME NEW c \in SplitSeqs, SendChunk(p, c) PROVE QuicTypeOK(SplitSeqs)'
  BY <1>2, WindowAssumption DEF SendChunk, QuicTypeOK
<1>3. CASE UNCHANGED qvars
  BY <1>3 DEF QuicTypeOK, qvars
<1>4. CASE Dial(p) \/ SendPreamble(p) \/ CloseStream(p) \/ ClientCloseAll
  BY <1>4 DEF Dial, SendPreamble, CloseStream, ClientCloseAll, QuicTypeOK
<1>5. CASE ReceivePreamble(p) \/ SendAck(p) \/ ServerClose(p) \/ Network(p)
  BY <1>5 DEF ReceivePreamble, SendAck, ServerClose, Network, ServerTornDown,
      ClientTornDown, PathLost, QuicTypeOK
<1> QED BY <1>1, <1>2, <1>3, <1>4, <1>5 DEF QuicStep

\* Sets of paths can be counted, and there are NumPaths paths.
LEMMA PathsCount ==
    ASSUME NEW S, S \subseteq Paths
    PROVE  /\ IsFiniteSet(S)
           /\ Cardinality(S) \in 0..NumPaths
           /\ Cardinality(Paths) = NumPaths
           /\ Cardinality(S) = NumPaths => S = Paths
<1>1. NumPaths \in Nat /\ 0 \in Nat /\ Paths = 0..(0 + NumPaths - 1)
  BY PathAssumption, SMT DEF Paths
<1>2. IsFiniteSet(Paths) /\ Cardinality(Paths) = NumPaths
  BY <1>1, RunOfNumbers
<1>3. IsFiniteSet(S) /\ Cardinality(S) <= NumPaths /\ Cardinality(S) \in Nat
  BY <1>2, FS_Subset, FS_CardinalityType
<1>4. Cardinality(S) = NumPaths => S = Paths
  BY <1>2, FS_Subset
<1> QED BY <1>1, <1>2, <1>3, <1>4, SMT

-----------------------------------------------------------------------------
\* The inductive invariant of the session.

\* pathDone's rows: one per recorded path, with the handler's counters.
RowsInv ==
    /\ \A i \in 1..Len(pathResults) :
          /\ hpc[pathResults[i].index] \in Recorded
          /\ pathResults[i] = PathStats(pathResults[i].index)
    /\ \A i, j \in 1..Len(pathResults) :
          pathResults[i].index = pathResults[j].index => i = j
    /\ \A p \in Paths : hpc[p] \in Recorded =>
          \E i \in 1..Len(pathResults) : pathResults[i].index = p
    /\ Len(pathResults) = Cardinality({p \in Paths : hpc[p] \in Recorded})

\* Nobody is in the read loop before the control header was seen.
JoinedInv == \A p \in Paths : hpc[p] \notin Early => sess = "ready"

\* The delivery log lags behind the counters by the one sample being added.
DeliveryInv ==
    \A p \in Paths :
        chunks[p] = corrupted[p] + deliveryLog[p] + (IF hpc[p] = "log" THEN 1 ELSE 0)

\* The verdict, once given, is what the counters and the reassembler say.
VerdictInv ==
    result # "none" =>
        /\ sess = "ready" /\ wg = 0
        /\ result = "ok" <=> (Complete /\ \A p \in Paths : corrupted[p] = 0)

SessionInv ==
    /\ ServerTypeOK
    /\ WgCountsUnfinished
    /\ RowsInv
    /\ JoinedInv
    /\ DeliveryInv
    /\ sess = "ready" => ReassemblerInv
    /\ VerdictInv

\* The parts that follow from the others.
LEMMA SessionTypes ==
    ASSUME QuicTypeOK(SplitSeqs), hpc \in [Paths -> Handlers],
           sess \in {"none", "created", "ready"}, chunks \in [Paths -> Nat],
           corrupted \in [Paths -> Nat], bytesReceived \in [Paths -> Nat],
           readErr \in [Paths -> {"none", "EOF", "err"}],
           deliveryLog \in [Paths -> Nat], pathResults \in Seq(Rows),
           result \in {"none", "ok", "bad"}, sess = "ready" => ReassemblerInv,
           WgCountsUnfinished
    PROVE  ServerTypeOK
<1>1. wg \in 0..NumPaths
  <2>1. CASE sess = "ready"
    BY <2>1, PathsCount DEF WgCountsUnfinished
  <2>2. CASE sess # "ready"
    BY <2>2, PathAssumption DEF WgCountsUnfinished
  <2> QED BY <2>1, <2>2
<1> QED BY <1>1 DEF ServerTypeOK, ReassemblerInv, Rows

\* A session nobody has touched yet.
LEMMA SessionInit ==
    QuicInit /\ ServerInit => SessionInv
<1> SUFFICES ASSUME QuicInit, ServerInit PROVE SessionInv
  OBVIOUS
<1>1. QuicTypeOK(SplitSeqs)
  BY WindowAssumption DEF QuicInit, QuicTypeOK
<1>2. WgCountsUnfinished
  BY DEF ServerInit, WgCountsUnfinished
<1>3. ServerTypeOK
  <2>1. pathResults \in Seq(Rows)
    BY DEF ServerInit
  <2>2. /\ hpc \in [Paths -> Handlers]
        /\ chunks \in [Paths -> Nat] /\ corrupted \in [Paths -> Nat]
        /\ bytesReceived \in [Paths -> Nat] /\ deliveryLog \in [Paths -> Nat]
        /\ readErr \in [Paths -> {"none", "EOF", "err"}]
    BY DEF ServerInit, Handlers, Early
  <2> QED BY <1>1, <1>2, <2>1, <2>2, SessionTypes DEF ServerInit
<1>4. RowsInv
  <2>1. {p \in Paths : hpc[p] \in Recorded} = {}
    BY DEF ServerInit, Recorded
  <2>2. Len(pathResults) = 0 /\ 1..Len(pathResults) = {}
    BY DEF ServerInit
  <2> QED BY <2>1, <2>2, FS_EmptySet DEF RowsInv
<1>5. JoinedInv /\ DeliveryInv /\ VerdictInv
  BY DEF ServerInit, JoinedInv, DeliveryInv, VerdictInv, Early
<1> QED BY <1>2, <1>3, <1>4, <1>5 DEF SessionInv, ServerInit

-----------------------------------------------------------------------------
\* Steps that do not touch the session: the client's and the network's.
LEMMA PeerPreserves ==
    ASSUME SessionInv, UNCHANGED <<svars, rvars>>, QuicTypeOK(SplitSeqs)'
    PROVE  SessionInv'
<1>1. ReassemblerInv' = ReassemblerInv /\ Complete' = Complete
  BY DEF rvars, ReassemblerInv, ReassemblerTypeOK, RemainingCountsMissing,
      BufferMatchesReceived, UniqueBytesCounted, Complete
<1>2. ServerTypeOK'
  BY <1>1 DEF SessionInv, ServerTypeOK, svars, ReassemblerInv
<1>3. WgCountsUnfinished' /\ JoinedInv' /\ DeliveryInv' /\ VerdictInv'
  BY <1>1 DEF SessionInv, WgCountsUnfinished, JoinedInv, DeliveryInv, VerdictInv, svars
<1>4. RowsInv'
  BY DEF SessionInv, RowsInv, PathStats, svars
<1> QED BY <1>1, <1>2, <1>3, <1>4 DEF SessionInv, svars

\* Every row names a path.
LEMMA RowOfAPath ==
    ASSUME NEW rows \in Seq(Rows), NEW i \in 1..Len(rows)
    PROVE  rows[i] \in Rows /\ rows[i].index \in Paths
<1>1. rows[i] \in Rows
  OBVIOUS
<1> QED BY <1>1 DEF Rows

\* Handler steps outside pathDone and the counters: only the place of the
\* handler moves (and readErr, which no part of the invariant reads).
LEMMA MovePreserves ==
    ASSUME SessionInv, NEW p \in Paths, NEW y \in Handlers,
           hpc' = [hpc EXCEPT ![p] = y],
           hpc[p] \notin Recorded \cup {"log"}, y \notin Recorded \cup {"log"},
           sess' = sess \/ (sess # "ready" /\ sess' = "created"),
           y \notin Early => sess' = "ready",
           readErr' \in [Paths -> {"none", "EOF", "err"}],
           QuicTypeOK(SplitSeqs)',
           UNCHANGED <<wg, chunks, corrupted, bytesReceived, deliveryLog,
                       pathResults, result, rvars>>
    PROVE  SessionInv'
<1>1. ReassemblerInv' = ReassemblerInv /\ Complete' = Complete
  BY DEF rvars, ReassemblerInv, ReassemblerTypeOK, RemainingCountsMissing,
      BufferMatchesReceived, UniqueBytesCounted, Complete
<1>2. hpc \in [Paths -> Handlers] /\ hpc' \in [Paths -> Handlers]
  BY DEF SessionInv, ServerTypeOK
<1>3. \A q \in Paths : /\ hpc'[q] \in Recorded <=> hpc[q] \in Recorded
                       /\ hpc'[q] \in Counted <=> hpc[q] \in Counted
                       /\ hpc'[q] = "log" <=> hpc[q] = "log"
  BY <1>2 DEF Recorded, Counted
<1>4. WgCountsUnfinished'
  BY <1>3 DEF SessionInv, WgCountsUnfinished
<1>5. sess' = "ready" <=> sess = "ready"
  OBVIOUS
<1>6. pathResults \in Seq(Rows)
  BY DEF SessionInv, ServerTypeOK, Rows
<1>7. ServerTypeOK'
  BY <1>1, <1>2, <1>4, <1>5, SessionTypes DEF SessionInv, ServerTypeOK, ReassemblerInv
<1>8. RowsInv'
  <2>1. \A i \in 1..Len(pathResults) : pathResults[i].index \in Paths
    BY <1>6, RowOfAPath
  <2> QED BY <1>3, <2>1 DEF SessionInv, RowsInv, PathStats
<1>9. JoinedInv' /\ DeliveryInv' /\ VerdictInv'
  BY <1>1, <1>2, <1>3, <1>5 DEF SessionInv, JoinedInv, DeliveryInv, VerdictInv
<1> QED BY <1>1, <1>4, <1>5, <1>7, <1>8, <1>9 DEF SessionInv

\* serverSession.start: wg.Add(NumPaths) while nobody has called Done yet.
LEMMA StartPreserves ==
    ASSUME SessionInv, NEW p \in Paths, Start(p)
    PROVE  SessionInv'
<1> USE DEF Start, StartAdding, At
<1>1. ReassemblerInv'
  <2>1. ReassemblerInit'
    BY DEF NewReassembler, ReassemblerInit
  <2>2. (ReassemblerInit => ReassemblerInv)'
    BY FreshReassembler, PTL
  <2> QED BY <2>1, <2>2
<1>2. QuicTypeOK(SplitSeqs)'
  BY QuicTypes DEF SessionInv, ServerTypeOK
<1>3. hpc \in [Paths -> Handlers] /\ hpc' \in [Paths -> Handlers]
  BY DEF SessionInv, ServerTypeOK, Handlers, Early
<1>4. \A q \in Paths : hpc[q] \in Early /\ hpc'[q] \in Early
  BY <1>3 DEF SessionInv, JoinedInv, Early
<1>5. wg = 0 /\ wg' = NumPaths /\ result = "none"
  BY PathAssumption DEF SessionInv, WgCountsUnfinished, VerdictInv
<1>6. WgCountsUnfinished'
  <2>1. {q \in Paths : hpc'[q] \notin Counted} = Paths
    BY <1>4 DEF Early, Counted
  <2> QED BY <1>5, <2>1, PathsCount DEF WgCountsUnfinished
<1>7. pathResults \in Seq(Rows)
  BY DEF SessionInv, ServerTypeOK, Rows
<1>8. ServerTypeOK'
  <2>1. wg' \in 0..NumPaths
    BY <1>5, PathAssumption
  <2> QED BY <1>1, <1>2, <1>3, <2>1 DEF SessionInv, ServerTypeOK, ReassemblerInv
<1>9. RowsInv'
  <2>1. \A q \in Paths : hpc'[q] \in Recorded <=> hpc[q] \in Recorded
    BY <1>4 DEF Early, Recorded
  <2>2. \A i \in 1..Len(pathResults) : pathResults[i].index \in Paths
    BY <1>7, RowOfAPath
  <2> QED BY <2>1, <2>2 DEF SessionInv, RowsInv, PathStats
<1>10. JoinedInv' /\ DeliveryInv' /\ VerdictInv'
  BY <1>3, <1>4, <1>5 DEF SessionInv, JoinedInv, DeliveryInv, VerdictInv, Early
<1> QED BY <1>1, <1>6, <1>8, <1>9, <1>10 DEF SessionInv

\* The read loop: counters and reassembler of a path that has no row yet.
LEMMA ReadPreserves ==
    ASSUME SessionInv, NEW p \in Paths,
           ReadChunk(p) \/ ReadCorruptChunk(p) \/ LogDelivery(p)
    PROVE  SessionInv'
<1>1. /\ hpc \in [Paths -> Handlers] /\ chunks \in [Paths -> Nat]
      /\ corrupted \in [Paths -> Nat] /\ bytesReceived \in [Paths -> Nat]
      /\ deliveryLog \in [Paths -> Nat] /\ pathResults \in Seq(Rows)
  BY DEF SessionInv, ServerTypeOK, Rows
<1>2. /\ hpc[p] \in {"read", "log"} /\ hpc' \in [Paths -> Handlers]
      /\ \A q \in Paths : q # p => hpc'[q] = hpc[q]
      /\ hpc'[p] \in {"read", "log"}
  BY <1>1 DEF ReadChunk, ReadCorruptChunk, LogDelivery, At, Handlers
<1>3. sess = "ready" /\ UNCHANGED <<sess, wg, readErr, pathResults, result>>
  BY <1>2 DEF SessionInv, JoinedInv, Early, ReadChunk, ReadCorruptChunk, LogDelivery
<1>4. \A q \in Paths : /\ hpc'[q] \in Recorded <=> hpc[q] \in Recorded
                       /\ hpc'[q] \in Counted <=> hpc[q] \in Counted
                       /\ hpc[q] \in Recorded => q # p
  <2>1. hpc[p] \notin Recorded \cup Counted /\ hpc'[p] \notin Recorded \cup Counted
    BY <1>2 DEF Recorded, Counted
  <2> QED BY <1>2, <2>1
<1>5. WgCountsUnfinished'
  BY <1>3, <1>4 DEF SessionInv, WgCountsUnfinished
<1>6. result = "none"
  <2>1. p \in {q \in Paths : hpc[q] \notin Counted}
    BY <1>2 DEF Counted
  <2>2. Cardinality({q \in Paths : hpc[q] \notin Counted}) # 0
    BY <2>1, PathsCount, FS_EmptySet
  <2> QED BY <2>2, <1>3 DEF SessionInv, WgCountsUnfinished, VerdictInv
<1>7. QuicTypeOK(SplitSeqs)'
  BY QuicTypes DEF SessionInv, ServerTypeOK, QuicStep, ReadChunk, ReadCorruptChunk, LogDelivery
<1>8. ASSUME ReceiveChunk(p) PROVE Head(up[p]) \in SplitSeqs /\ ChunkLen(Head(up[p])) \in Nat
  <2>1. up[p] \in Seq(SplitSeqs) /\ up[p] # << >>
    BY <1>8 DEF ReceiveChunk, SessionInv, ServerTypeOK, QuicTypeOK
  <2>2. Head(up[p]) \in SplitSeqs
    BY <2>1
  <2> QED BY <2>2, ChunkBytes
<1>9. ReassemblerInv'
  <2>1. CASE ReadChunk(p)
    BY <2>1, <1>3, <1>8, WritePreserves DEF ReadChunk, SessionInv
  <2>2. CASE UNCHANGED rvars
    BY <2>2, <1>3 DEF SessionInv, rvars, ReassemblerInv, ReassemblerTypeOK,
        RemainingCountsMissing, BufferMatchesReceived, UniqueBytesCounted
  <2> QED BY <2>1, <2>2 DEF ReadCorruptChunk, LogDelivery
<1>10. /\ chunks' \in [Paths -> Nat] /\ corrupted' \in [Paths -> Nat]
       /\ bytesReceived' \in [Paths -> Nat] /\ deliveryLog' \in [Paths -> Nat]
       /\ \A q \in Paths : q # p =>
             /\ chunks'[q] = chunks[q] /\ corrupted'[q] = corrupted[q]
             /\ bytesReceived'[q] = bytesReceived[q] /\ deliveryLog'[q] = deliveryLog[q]
  <2>1. CASE ReadChunk(p)
    BY <2>1, <1>1, <1>8 DEF ReadChunk
  <2>2. CASE ReadCorruptChunk(p)
    BY <2>2, <1>1, <1>8 DEF ReadCorruptChunk
  <2>3. CASE LogDelivery(p)
    BY <2>3, <1>1 DEF LogDelivery
  <2> QED BY <2>1, <2>2, <2>3
<1>11. ServerTypeOK'
  BY <1>2, <1>3, <1>7, <1>9, <1>10 DEF SessionInv, ServerTypeOK, ReassemblerInv
<1>12. RowsInv'
  <2>1. \A i \in 1..Len(pathResults) : pathResults[i].index \in Paths \ {p}
    BY <1>1, <1>4, RowOfAPath DEF SessionInv, RowsInv
  <2>2. \A i \in 1..Len(pathResults) :
          PathStats(pathResults[i].index)' = PathStats(pathResults[i].index)
    BY <2>1, <1>3, <1>10 DEF PathStats
  <2> QED BY <2>1, <2>2, <1>3, <1>4 DEF SessionInv, RowsInv
<1>13. DeliveryInv'
  <2>1. chunks'[p] = corrupted'[p] + deliveryLog'[p] + (IF hpc'[p] = "log" THEN 1 ELSE 0)
    <3>0. /\ chunks[p] \in Nat /\ corrupted[p] \in Nat /\ deliveryLog[p] \in Nat
          /\ chunks[p] = corrupted[p] + deliveryLog[p] + (IF hpc[p] = "log" THEN 1 ELSE 0)
      BY <1>1 DEF SessionInv, DeliveryInv
    <3>1. CASE ReadChunk(p)
      <4>1. /\ hpc[p] = "read" /\ hpc'[p] = "log" /\ chunks'[p] = chunks[p] + 1
            /\ corrupted'[p] = corrupted[p] /\ deliveryLog'[p] = deliveryLog[p]
        BY <3>1, <1>1 DEF ReadChunk, At
      <4> QED BY <3>0, <4>1
    <3>2. CASE ReadCorruptChunk(p)
      <4>1. /\ hpc[p] = "read" /\ hpc'[p] = "read" /\ chunks'[p] = chunks[p] + 1
            /\ corrupted'[p] = corrupted[p] + 1 /\ deliveryLog'[p] = deliveryLog[p]
        BY <3>2, <1>1 DEF ReadCorruptChunk
      <4> QED BY <3>0, <4>1
    <3>3. CASE LogDelivery(p)
      <4>1. /\ hpc[p] = "log" /\ hpc'[p] = "read" /\ chunks'[p] = chunks[p]
            /\ corrupted'[p] = corrupted[p] /\ deliveryLog'[p] = deliveryLog[p] + 1
        BY <3>3, <1>1 DEF LogDelivery, At
      <4> QED BY <3>0, <4>1
    <3> QED BY <3>1, <3>2, <3>3
  <2> QED BY <2>1, <1>2, <1>10 DEF SessionInv, DeliveryInv
<1>14. JoinedInv' /\ VerdictInv'
  BY <1>3, <1>6 DEF JoinedInv, VerdictInv
<1> QED BY <1>5, <1>9, <1>11, <1>12, <1>13, <1>14 DEF SessionInv

\* pathDone's append: the path gets its row, its counters are final.
LEMMA RecordPreserves ==
    ASSUME SessionInv, NEW p \in Paths, RecordPath(p)
    PROVE  SessionInv'
<1> USE DEF RecordPath, At
<1>1. /\ hpc \in [Paths -> Handlers] /\ chunks \in [Paths -> Nat]
      /\ corrupted \in [Paths -> Nat] /\ bytesReceived \in [Paths -> Nat]
      /\ pathResults \in Seq(Rows)
  BY DEF SessionInv, ServerTypeOK, Rows
<1>2. /\ hpc[p] = "done" /\ hpc' \in [Paths -> Handlers] /\ hpc'[p] = "recorded"
      /\ \A q \in Paths : q # p => hpc'[q] = hpc[q]
  BY <1>1 DEF Handlers
<1>3. ReassemblerInv' = ReassemblerInv /\ Complete' = Complete
  BY DEF rvars, ReassemblerInv, ReassemblerTypeOK, RemainingCountsMissing,
      BufferMatchesReceived, UniqueBytesCounted, Complete
<1>4. QuicTypeOK(SplitSeqs)'
  BY QuicTypes DEF SessionInv, ServerTypeOK
<1>5. WgCountsUnfinished'
  <2>1. \A q \in Paths : hpc'[q] \in Counted <=> hpc[q] \in Counted
    BY <1>2 DEF Counted
  <2> QED BY <2>1 DEF SessionInv, WgCountsUnfinished
<1> DEFINE k == Len(pathResults)
           row == PathStats(p)
<1>6. row \in Rows /\ row.index = p /\ PathStats(p)' = row
  BY <1>1 DEF Rows, PathStats
<1>7. /\ k \in Nat /\ pathResults' \in Seq(Rows) /\ Len(pathResults') = k + 1
      /\ pathResults'[k + 1] = row
      /\ \A i \in 1..k : pathResults'[i] = pathResults[i]
  BY <1>1, <1>6
<1>8. ServerTypeOK'
  BY <1>2, <1>3, <1>4, <1>7 DEF SessionInv, ServerTypeOK, Rows, ReassemblerInv
<1>9. RowsInv'
  <2>1. \A i \in 1..k : /\ pathResults[i].index \in Paths \ {p}
                        /\ hpc[pathResults[i].index] \in Recorded
                        /\ pathResults[i] = PathStats(pathResults[i].index)
    <3>1. hpc[p] \notin Recorded
      BY <1>2 DEF Recorded
    <3> QED BY <3>1, <1>1, RowOfAPath DEF SessionInv, RowsInv
  <2>3. 1..Len(pathResults') = (1..k) \cup {k + 1} /\ k + 1 \notin 1..k
    BY <1>7
  <2>4. \A i \in 1..Len(pathResults') :
          /\ hpc'[pathResults'[i].index] \in Recorded
          /\ pathResults'[i] = PathStats(pathResults'[i].index)
    <3>1. \A i \in 1..k : /\ hpc'[pathResults'[i].index] \in Recorded
                          /\ pathResults'[i] = PathStats(pathResults'[i].index)
      BY <2>1, <1>2, <1>7
    <3>2. hpc'[p] \in Recorded
      BY <1>2 DEF Recorded
    <3> QED BY <2>3, <3>1, <3>2, <1>6, <1>7
  <2>5. \A i, j \in 1..Len(pathResults') :
          pathResults'[i].index = pathResults'[j].index => i = j
    <3>1. \A i, j \in 1..k : pathResults[i].index = pathResults[j].index => i = j
      BY DEF SessionInv, RowsInv
    <3> QED BY <2>1, <2>3, <1>6, <1>7, <3>1
  <2>6. \A q \in Paths : hpc'[q] \in Recorded =>
          \E i \in 1..Len(pathResults') : pathResults'[i].index = q
    <3>1. ASSUME NEW q \in Paths, hpc'[q] \in Recorded, q # p
          PROVE  \E i \in 1..Len(pathResults') : pathResults'[i].index = q
      <4>1. PICK i \in 1..k : pathResults[i].index = q
        BY <3>1, <1>2 DEF SessionInv, RowsInv
      <4> QED BY <4>1, <2>3, <1>7
    <3>2. pathResults'[k + 1].index = p
      BY <1>6, <1>7
    <3> QED BY <2>3, <3>1, <3>2
  <2>7. Len(pathResults') = Cardinality({q \in Paths : hpc'[q] \in Recorded})
    <3> DEFINE R == {q \in Paths : hpc[q] \in Recorded}
    <3>1. {q \in Paths : hpc'[q] \in Recorded} = R \cup {p} /\ p \notin R
      BY <1>2 DEF Recorded
    <3>2. IsFiniteSet(R)
      BY PathsCount
    <3>3. Cardinality(R \cup {p}) = Cardinality(R) + 1
      BY <3>1, <3>2, FS_AddElement
    <3>4. k = Cardinality(R)
      BY DEF SessionInv, RowsInv
    <3> QED BY <3>1, <3>3, <3>4, <1>7
  <2> QED BY <2>4, <2>5, <2>6, <2>7 DEF RowsInv, PathStats
<1>10. JoinedInv' /\ DeliveryInv' /\ VerdictInv'
  <2>1. hpc[p] \notin Early
    BY <1>2 DEF Early
  <2> QED BY <2>1, <1>2, <1>3 DEF SessionInv, JoinedInv, DeliveryInv, VerdictInv
<1> QED BY <1>3, <1>5, <1>8, <1>9, <1>10 DEF SessionInv

\* wg.Done: exactly one unit for a path that still held one.
LEMMA WgDonePreserves ==
    ASSUME SessionInv, NEW p \in Paths, WgDone(p)
    PROVE  SessionInv'
<1> USE DEF WgDone, At
<1>1. hpc \in [Paths -> Handlers] /\ pathResults \in Seq(Rows)
  BY DEF SessionInv, ServerTypeOK, Rows
<1>2. /\ hpc[p] = "recorded" /\ hpc' \in [Paths -> Handlers] /\ hpc'[p] = "counted"
      /\ \A q \in Paths : q # p => hpc'[q] = hpc[q]
  BY <1>1 DEF Handlers, Counted
<1>3. ReassemblerInv' = ReassemblerInv /\ Complete' = Complete
  BY DEF rvars, ReassemblerInv, ReassemblerTypeOK, RemainingCountsMissing,
      BufferMatchesReceived, UniqueBytesCounted, Complete
<1>4. QuicTypeOK(SplitSeqs)'
  BY QuicTypes DEF SessionInv, ServerTypeOK
<1>5. sess = "ready" /\ sess' = "ready"
  BY <1>2 DEF SessionInv, JoinedInv, Early
<1> DEFINE U == {q \in Paths : hpc[q] \notin Counted}
<1>6. /\ {q \in Paths : hpc'[q] \notin Counted} = U \ {p} /\ p \in U
      /\ IsFiniteSet(U) /\ wg = Cardinality(U) /\ Cardinality(U) \in Nat
  BY <1>2, <1>5, PathsCount DEF Counted, SessionInv, WgCountsUnfinished
<1>7. wg' = Cardinality(U \ {p})
  BY <1>6, FS_RemoveElement
<1>8. WgCountsUnfinished'
  BY <1>5, <1>6, <1>7 DEF WgCountsUnfinished
<1>9. wg' \in 0..NumPaths
  BY <1>7, PathsCount
<1>10. ServerTypeOK'
  BY <1>2, <1>3, <1>4, <1>9 DEF SessionInv, ServerTypeOK, ReassemblerInv
<1>11. RowsInv'
  <2>1. \A q \in Paths : hpc'[q] \in Recorded <=> hpc[q] \in Recorded
    BY <1>2 DEF Recorded
  <2>2. \A i \in 1..Len(pathResults) : pathResults[i].index \in Paths
    BY <1>1, RowOfAPath
  <2> QED BY <2>1, <2>2 DEF SessionInv, RowsInv, PathStats
<1>12. result = "none"
  <2>1. Cardinality(U) # 0
    BY <1>6, FS_EmptySet
  <2> QED BY <2>1, <1>6 DEF SessionInv, VerdictInv
<1>13. JoinedInv' /\ DeliveryInv' /\ VerdictInv'
  BY <1>2, <1>5, <1>12 DEF SessionInv, JoinedInv, DeliveryInv, VerdictInv
<1> QED BY <1>3, <1>8, <1>10, <1>11, <1>13 DEF SessionInv

\* The end of handleConn: the path is counted already and stays counted.
LEMMA ReturnPreserves ==
    ASSUME SessionInv, NEW p \in Paths, WriteAck(p) \/ CloseNow(p)
    PROVE  SessionInv'
<1>1. hpc \in [Paths -> Handlers] /\ pathResults \in Seq(Rows)
  BY DEF SessionInv, ServerTypeOK, Rows
<1>2. /\ hpc[p] = "counted" /\ hpc' \in [Paths -> Handlers]
      /\ hpc'[p] \in {"acked", "closed"}
      /\ \A q \in Paths : q # p => hpc'[q] = hpc[q]
      /\ UNCHANGED <<sess, wg, chunks, corrupted, bytesReceived, readErr,
                     deliveryLog, pathResults, result, rvars>>
  BY <1>1 DEF WriteAck, CloseNow, At, Handlers, Counted
<1>3. ReassemblerInv' = ReassemblerInv /\ Complete' = Complete
  BY <1>2 DEF rvars, ReassemblerInv, ReassemblerTypeOK, RemainingCountsMissing,
      BufferMatchesReceived, UniqueBytesCounted, Complete
<1>4. QuicTypeOK(SplitSeqs)'
  BY QuicTypes DEF SessionInv, ServerTypeOK, QuicStep, WriteAck, CloseNow
<1>5. \A q \in Paths : /\ hpc'[q] \in Recorded <=> hpc[q] \in Recorded
                       /\ hpc'[q] \in Counted <=> hpc[q] \in Counted
                       /\ hpc'[q] = "log" <=> hpc[q] = "log"
                       /\ hpc'[q] \notin Early => hpc[q] \notin Early
  <2>1. /\ {hpc[p], hpc'[p]} \subseteq Recorded \cap Counted
        /\ {hpc[p], hpc'[p]} \cap (Early \cup {"log"}) = {}
    BY <1>2 DEF Recorded, Counted, Early
  <2> QED BY <1>2, <2>1
<1>6. WgCountsUnfinished' /\ JoinedInv' /\ DeliveryInv' /\ VerdictInv'
  BY <1>2, <1>3, <1>5 DEF SessionInv, WgCountsUnfinished, JoinedInv, DeliveryInv, VerdictInv
<1>7. RowsInv'
  <2>1. \A i \in 1..Len(pathResults) : pathResults[i].index \in Paths
    BY <1>1, RowOfAPath
  <2> QED BY <1>2, <1>5, <2>1 DEF SessionInv, RowsInv, PathStats
<1>8. ServerTypeOK'
  BY <1>2, <1>3, <1>4 DEF SessionInv, ServerTypeOK, ReassemblerInv
<1> QED BY <1>2, <1>3, <1>6, <1>7, <1>8 DEF SessionInv

\* When the WaitGroup is at zero every path is counted, hence has its row.
LEMMA ZeroMeansAll ==
    ASSUME SessionInv, sess = "ready", wg = 0
    PROVE  /\ \A p \in Paths : hpc[p] \in Counted
           /\ Len(pathResults) = NumPaths
           /\ NoCorruptedRow <=> \A p \in Paths : corrupted[p] = 0
<1> DEFINE U == {p \in Paths : hpc[p] \notin Counted}
<1>1. U = {}
  <2>1. IsFiniteSet(U) /\ Cardinality(U) = 0
    BY PathsCount DEF SessionInv, WgCountsUnfinished
  <2> QED BY <2>1, FS_EmptySet
<1>2. \A p \in Paths : hpc[p] \in Counted /\ hpc[p] \in Recorded
  BY <1>1 DEF Counted, Recorded
<1>3. Len(pathResults) = NumPaths
  <2>1. {p \in Paths : hpc[p] \in Recorded} = Paths
    BY <1>2
  <2> QED BY <2>1, PathsCount DEF SessionInv, RowsInv
<1>4. pathResults \in Seq(Rows)
  BY DEF SessionInv, ServerTypeOK, Rows
<1>5. ASSUME NoCorruptedRow, NEW p \in Paths PROVE corrupted[p] = 0
  <2>1. PICK i \in 1..Len(pathResults) : pathResults[i].index = p
    BY <1>2 DEF SessionInv, RowsInv
  <2>2. pathResults[i].corrupted = corrupted[p]
    BY <2>1 DEF SessionInv, RowsInv, PathStats
  <2> QED BY <1>5, <2>2 DEF NoCorruptedRow
<1>6. ASSUME \A p \in Paths : corrupted[p] = 0, NEW i \in 1..Len(pathResults)
      PROVE  pathResults[i].corrupted = 0
  <2>1. pathResults[i].index \in Paths
    BY <1>4, RowOfAPath
  <2>2. pathResults[i].corrupted = corrupted[pathResults[i].index]
    BY DEF SessionInv, RowsInv, PathStats
  <2> QED BY <1>6, <2>1, <2>2
<1> QED BY <1>2, <1>3, <1>5, <1>6 DEF NoCorruptedRow

\* finalize gives the verdict the counters and the reassembler call for.
LEMMA FinalizePreserves ==
    ASSUME SessionInv, Finalize
    PROVE  SessionInv'
<1> USE DEF Finalize, FinalizeAs
<1>1. ReassemblerInv' = ReassemblerInv /\ Complete' = Complete
  BY DEF rvars, ReassemblerInv, ReassemblerTypeOK, RemainingCountsMissing,
      BufferMatchesReceived, UniqueBytesCounted, Complete
<1>2. QuicTypeOK(SplitSeqs)'
  <2>1. 0 \in Paths
    BY PathAssumption DEF Paths
  <2> QED BY <2>1, QuicTypes DEF SessionInv, ServerTypeOK
<1>3. ServerTypeOK'
  BY <1>1, <1>2 DEF SessionInv, ServerTypeOK, ReassemblerInv
<1>4. WgCountsUnfinished' /\ JoinedInv' /\ DeliveryInv'
  BY DEF SessionInv, WgCountsUnfinished, JoinedInv, DeliveryInv
<1>5. RowsInv'
  BY DEF SessionInv, RowsInv, PathStats
<1>6. VerdictInv'
  BY <1>1, ZeroMeansAll DEF VerdictInv
<1> QED BY <1>1, <1>3, <1>4, <1>5, <1>6 DEF SessionInv

\* Every step of the server preserves the invariant.
LEMMA ServerStepPreserves ==
    ASSUME SessionInv, ServerStep
    PROVE  SessionInv'
<1>1. CASE Finalize
  BY <1>1, FinalizePreserves
<1>2. ASSUME NEW p \in Paths, HandlerStep(p)
      PROVE  SessionInv'
  <2>0. /\ QuicTypeOK(SplitSeqs) /\ hpc \in [Paths -> Handlers]
        /\ readErr \in [Paths -> {"none", "EOF", "err"}]
    BY DEF SessionInv, ServerTypeOK
  <2>1. CASE Accept(p)
    <3>1. QuicTypeOK(SplitSeqs)'
      BY <2>0, <2>1, QuicTypes DEF Accept
    <3> QED BY <2>0, <2>1, <3>1, MovePreserves DEF Accept, At, Handlers, Early, Recorded
  <2>2. CASE AcceptFails(p) \/ WaitReadyTimesOut(p)
    <3>1. QuicTypeOK(SplitSeqs)'
      BY <2>0, <2>2, QuicTypes DEF AcceptFails, WaitReadyTimesOut, Abort, QuicStep
    <3> QED BY <2>0, <2>2, <3>1, MovePreserves
        DEF AcceptFails, WaitReadyTimesOut, Abort, At, Handlers, Early, Recorded
  <2>3. CASE GetOrCreate(p)
    <3>1. QuicTypeOK(SplitSeqs)'
      BY <2>0, <2>3, QuicTypes DEF GetOrCreate, QuicStep
    <3> DEFINE y == IF p = 0 THEN "start" ELSE "wait"
    <3>2. /\ hpc[p] = "accept" /\ hpc' = [hpc EXCEPT ![p] = y]
          /\ y \in Early /\ y \in Handlers
      BY <2>3 DEF GetOrCreate, At, Early, Handlers
    <3>3. sess' = sess \/ (sess # "ready" /\ sess' = "created")
      BY <2>3 DEF GetOrCreate
    <3>4. hpc[p] \notin Recorded \cup {"log"} /\ y \notin Recorded \cup {"log"}
      BY <3>2 DEF Recorded
    <3> HIDE DEF y
    <3> QED BY <2>0, <2>3, <3>1, <3>2, <3>3, <3>4, MovePreserves DEF GetOrCreate
  <2>4. CASE WaitReady(p)
    <3>1. QuicTypeOK(SplitSeqs)'
      BY <2>0, <2>4, QuicTypes DEF WaitReady
    <3> QED BY <2>0, <2>4, <3>1, MovePreserves DEF WaitReady, At, Handlers, Recorded
  <2>5. CASE StopReading(p)
    <3>1. QuicTypeOK(SplitSeqs)'
      BY <2>0, <2>5, QuicTypes DEF StopReading
    <3>2. readErr' \in [Paths -> {"none", "EOF", "err"}]
      BY <2>0, <2>5 DEF StopReading
    <3>3. sess = "ready"
      BY <2>5 DEF StopReading, At, SessionInv, JoinedInv, Early
    <3> QED BY <2>0, <2>5, <3>1, <3>2, <3>3, MovePreserves DEF StopReading, At, Handlers, Recorded
  <2>6. CASE Start(p)
    BY <2>6, StartPreserves
  <2>7. CASE ReadChunk(p) \/ ReadCorruptChunk(p) \/ LogDelivery(p)
    BY <2>7, ReadPreserves
  <2>8. CASE RecordPath(p)
    BY <2>8, RecordPreserves
  <2>9. CASE WgDone(p)
    BY <2>9, WgDonePreserves
  <2>10. CASE WriteAck(p) \/ CloseNow(p)
    BY <2>10, ReturnPreserves
  <2> QED BY <1>2, <2>1, <2>2, <2>3, <2>4, <2>5, <2>6, <2>7, <2>8, <2>9, <2>10 DEF HandlerStep
<1> QED BY <1>1, <1>2 DEF ServerStep

\* Every step of the session and of its peers preserves the invariant.
LEMMA SessionStep ==
    ASSUME SessionInv, [ServerNext]_<<qvars, svars, rvars>>
    PROVE  SessionInv'
<1>0. QuicTypeOK(SplitSeqs) /\ 0 \in Paths
  BY PathAssumption DEF SessionInv, ServerTypeOK, Paths
<1>1. CASE ServerStep
  BY <1>1, ServerStepPreserves
<1>2. CASE PeerGone
  <2>1. QuicTypeOK(SplitSeqs)'
    BY <1>0, <1>2, QuicTypes DEF PeerGone, QuicStep
  <2> QED BY <1>2, <2>1, PeerPreserves DEF PeerGone
<1>3. ASSUME NEW p \in Paths, PeerStep(p) PROVE SessionInv'
  <2>1. QuicTypeOK(SplitSeqs)'
    BY <1>0, <1>3, QuicTypes DEF PeerStep, QuicStep
  <2> QED BY <1>3, <2>1, PeerPreserves DEF PeerStep
<1>4. CASE UNCHANGED <<qvars, svars, rvars>>
  <2>1. QuicTypeOK(SplitSeqs)'
    BY <1>0, <1>4, QuicTypes
  <2> QED BY <1>4, <2>1, PeerPreserves
<1> QED BY <1>1, <1>2, <1>3, <1>4 DEF ServerNext

-----------------------------------------------------------------------------
\* The theorems.

\* The inductive invariant holds of the handlers, the WaitGroup and the
\* finalizing goroutine (cmd/server/main.go:78-189 and 254-391) whatever the
\* clients and the network do.
THEOREM SessionInvariant == ServerSpec => []SessionInv
<1>1. QuicInit /\ ServerInit => SessionInv
  BY SessionInit
<1>2. SessionInv /\ [ServerNext]_<<qvars, svars, rvars>> => SessionInv'
  BY SessionStep
<1> QED BY <1>1, <1>2, PTL DEF ServerSpec, InitSession

\* Every variable of the session keeps its type; in particular the WaitGroup
\* stays within 0..NumPaths, so wg.Done never panics.
THEOREM SessionTypesHold == ServerSpec => []ServerTypeOK
<1>1. SessionInv => ServerTypeOK
  BY DEF SessionInv
<1> QED BY <1>1, SessionInvariant, PTL

\* The WaitGroup counts exactly the paths that have not called wg.Done.
THEOREM WaitGroupExact == ServerSpec => []WgCountsUnfinished
<1>1. SessionInv => WgCountsUnfinished
  BY DEF SessionInv
<1> QED BY <1>1, SessionInvariant, PTL

\* pathDone leaves one row for each path that ended its read loop, with the
\* final counters of that path's handler, and no other row.
THEOREM RowsExact == ServerSpec => []OneRowPerPath
<1>1. SessionInv => OneRowPerPath
  <2> SUFFICES ASSUME SessionInv PROVE OneRowPerPath
    OBVIOUS
  <2>1. pathResults \in Seq(Rows)
    BY DEF SessionInv, ServerTypeOK, Rows
  <2>2. \A i \in 1..Len(pathResults) : pathResults[i].index \in Paths
    BY <2>1, RowOfAPath
  <2>3. ASSUME NEW i \in 1..Len(pathResults)
        PROVE  \E p \in Paths : hpc[p] \in Recorded /\ pathResults[i] = PathStats(p)
    BY <2>2 DEF SessionInv, RowsInv
  <2>4. ASSUME NEW p \in Paths, hpc[p] \in Recorded
        PROVE  \E i \in 1..Len(pathResults) : pathResults[i] = PathStats(p)
    <3>1. PICK i \in 1..Len(pathResults) : pathResults[i].index = p
      BY <2>4 DEF SessionInv, RowsInv
    <3>2. pathResults[i] = PathStats(p)
      BY <3>1 DEF SessionInv, RowsInv
    <3> QED BY <3>2
  <2>5. {pathResults[i] : i \in 1..Len(pathResults)}
          = {PathStats(p) : p \in {q \in Paths : hpc[q] \in Recorded}}
    <3> HIDE DEF Recorded, PathStats
    <3> QED BY <2>3, <2>4
  <2> QED BY <2>5 DEF OneRowPerPath, SessionInv, RowsInv
<1> QED BY <1>1, SessionInvariant, PTL

\* The result is written only when every path's row and every delivery sample
\* is in.
THEOREM ResultComplete == ServerSpec => []ResultCoversEveryPath
<1>1. SessionInv => ResultCoversEveryPath
  <2> SUFFICES ASSUME SessionInv, result # "none"
               PROVE  /\ Len(pathResults) = NumPaths
                      /\ \A p \in Paths : /\ hpc[p] \in Counted
                                          /\ deliveryLog[p] = chunks[p] - corrupted[p]
    BY DEF ResultCoversEveryPath
  <2>1. sess = "ready" /\ wg = 0
    BY DEF SessionInv, VerdictInv
  <2>2. Len(pathResults) = NumPaths /\ \A p \in Paths : hpc[p] \in Counted
    BY <2>1, ZeroMeansAll
  <2>3. ASSUME NEW p \in Paths PROVE deliveryLog[p] = chunks[p] - corrupted[p]
    <3>1. hpc[p] # "log"
      BY <2>2 DEF Counted
    <3>2. chunks[p] \in Nat /\ corrupted[p] \in Nat /\ deliveryLog[p] \in Nat
      BY DEF SessionInv, ServerTypeOK
    <3>3. chunks[p] = corrupted[p] + deliveryLog[p] + 0
      BY <3>1 DEF SessionInv, DeliveryInv
    <3> QED BY <3>2, <3>3
  <2> QED BY <2>2, <2>3
<1> QED BY <1>1, SessionInvariant, PTL

\* integrity_ok is true exactly when the reassembled buffer is the payload and
\* no handler ever counted a corrupted chunk.
THEOREM IntegrityCorrect == ServerSpec => []IntegrityOKIsSound
<1>1. SessionInv => IntegrityOKIsSound
  <2> SUFFICES ASSUME SessionInv, result # "none"
               PROVE  result = "ok" <=> /\ buf = Payload
                                        /\ \A p \in Paths : corrupted[p] = 0
    BY DEF IntegrityOKIsSound
  <2>1. ReassemblerInv /\ (result = "ok" <=> (Complete /\ \A p \in Paths : corrupted[p] = 0))
    BY DEF SessionInv, VerdictInv
  <2>2. Complete <=> buf = Payload
    BY <2>1, CompletePayload
  <2> QED BY <2>1, <2>2
<1> QED BY <1>1, SessionInvariant, PTL

\* Nothing the verdict was computed from moves after finalize has run: no
\* handler is left that could still write to it.
THEOREM VerdictFrozen == ServerSpec => FrozenAfterResult
<1>1. SessionInv /\ [ServerNext]_<<qvars, svars, rvars>>
        => [result # "none" =>
              UNCHANGED <<result, pathResults, chunks, corrupted, bytesReceived,
                          deliveryLog, rvars>>]_<<qvars, svars, rvars>>
  <2> SUFFICES ASSUME SessionInv, [ServerNext]_<<qvars, svars, rvars>>, result # "none"
               PROVE  UNCHANGED <<result, pathResults, chunks, corrupted,
                                  bytesReceived, deliveryLog, rvars>>
    OBVIOUS
  <2>1. \A p \in Paths : hpc[p] \in Counted
    BY ZeroMeansAll DEF SessionInv, VerdictInv
  <2>2. CASE Finalize
    BY <2>2 DEF Finalize
  <2>3. ASSUME NEW p \in Paths, HandlerStep(p)
        PROVE  UNCHANGED <<result, pathResults, chunks, corrupted,
                           bytesReceived, deliveryLog, rvars>>
    <3>1. hpc[p] \in {"counted", "acked", "closed"}
      BY <2>1 DEF Counted
    <3>2. WriteAck(p) \/ CloseNow(p)
      BY <2>3, <3>1 DEF HandlerStep, Accept, AcceptFails, Abort, GetOrCreate, Start,
          StartAdding, WaitReady, WaitReadyTimesOut, ReadChunk, ReadCorruptChunk,
          LogDelivery, StopReading, RecordPath, WgDone, At
    <3> QED BY <3>2 DEF WriteAck, CloseNow
  <2>4. CASE PeerGone \/ \E p \in Paths : PeerStep(p)
    BY <2>4 DEF PeerGone, PeerStep, svars
  <2>5. CASE UNCHANGED <<qvars, svars, rvars>>
    BY <2>5 DEF svars
  <2> QED BY <2>2, <2>3, <2>4, <2>5 DEF ServerNext, ServerStep
<1> QED BY <1>1, SessionInvariant, PTL DEF ServerSpec, InitSession, FrozenAfterResult

-----------------------------------------------------------------------------
\* The refinement of IntegrityVerdict.

\* Before start there is no reassembler, so nothing counts as delivered.
NilInv == sess # "ready" => received = [i \in {} |-> FALSE]

\* The reassembler is made by start and written only inside the read loop.
LEMMA NilStep ==
    ASSUME SessionInv, NilInv, [ServerNext]_<<qvars, svars, rvars>>
    PROVE  NilInv'
<1>1. CASE Finalize
  BY <1>1 DEF Finalize, FinalizeAs, NilInv, rvars
<1>2. ASSUME NEW p \in Paths, HandlerStep(p) PROVE NilInv'
  <2>1. CASE Start(p)
    BY <2>1 DEF Start, StartAdding, NilInv
  <2>2. CASE ReadChunk(p)
    <3>1. sess = "ready" /\ sess' = sess
      BY <2>2 DEF ReadChunk, At, SessionInv, JoinedInv, Early
    <3> QED BY <3>1 DEF NilInv
  <2>3. CASE UNCHANGED rvars /\ (sess' = sess \/ sess # "ready")
    BY <2>3 DEF NilInv, rvars
  <2> QED BY <1>2, <2>1, <2>2, <2>3 DEF HandlerStep, Accept, AcceptFails, Abort,
          GetOrCreate, WaitReady, WaitReadyTimesOut, ReadCorruptChunk, LogDelivery,
          StopReading, RecordPath, WgDone, WriteAck, CloseNow
<1>3. CASE UNCHANGED <<svars, rvars>>
  BY <1>3 DEF NilInv, svars, rvars
<1> QED BY <1>1, <1>2, <1>3 DEF ServerNext, ServerStep, PeerGone, PeerStep

Delivered == {c \in DOMAIN received : received[c]}
Tally == [p \in Paths |-> [chunks |-> chunks[p], corrupted |-> corrupted[p]]]
Reported == {p \in Paths : hpc[p] \in Recorded}

\* A step that moves a handler without recording it, and touches neither the
\* counters nor the set of delivered chunks, is invisible to the promise.
LEMMA Invisible ==
    ASSUME NEW p \in Paths, hpc \in [Paths -> Handlers],
           NEW y, hpc' = [hpc EXCEPT ![p] = y], y \in Recorded <=> hpc[p] \in Recorded,
           UNCHANGED <<chunks, corrupted, result>>, Delivered' = Delivered
    PROVE  UNCHANGED <<Delivered, Tally, Reported, result>>
<1>1. Tally' = Tally
  BY DEF Tally
<1>2. \A q \in Paths : hpc'[q] \in Recorded <=> hpc[q] \in Recorded
  OBVIOUS
<1>3. Reported' = Reported
  BY <1>2 DEF Reported
<1> QED BY <1>1, <1>3

\* A chunk that passes its checksum arrives, whether it is new or a duplicate.
LEMMA ReadIsArrive ==
    ASSUME SessionInv, NEW p \in Paths, ReadChunk(p)
    PROVE  \E c \in SplitSeqs : Verdict!Arrive(p, c)
<1> DEFINE c == Head(up[p])
<1>1. c \in SplitSeqs
  <2>1. up[p] \in Seq(SplitSeqs) /\ up[p] # << >>
    BY DEF ReadChunk, ReceiveChunk, SessionInv, ServerTypeOK, QuicTypeOK
  <2> QED BY <2>1
<1>2. /\ hpc \in [Paths -> Handlers] /\ chunks \in [Paths -> Nat]
      /\ corrupted \in [Paths -> Nat] /\ hpc[p] = "read" /\ hpc' = [hpc EXCEPT ![p] = "log"]
      /\ chunks' = [chunks EXCEPT ![p] = @ + 1] /\ corrupted' = corrupted
      /\ result' = result /\ Write(ChunkAt(c))
  BY DEF SessionInv, ServerTypeOK, ReadChunk, At
<1>3. ReassemblerInv
  BY <1>2 DEF SessionInv, JoinedInv, Early
<1>4. ChunkAt(c).offset \div ChunkSize = c
  BY <1>1, ChunkBytes DEF ChunkAt
<1>5. c \in DOMAIN received /\ DOMAIN received = SplitSeqs /\ received \in [SplitSeqs -> BOOLEAN]
  BY <1>1, <1>3, ChunkNumbers DEF ReassemblerInv, ReassemblerTypeOK
<1> HIDE DEF c
<1>6. received' = [received EXCEPT ![c] = TRUE]
  <2>1. CASE received[c]
    BY <2>1, <1>2, <1>4, <1>5 DEF Write, rvars
  <2>2. CASE ~received[c]
    BY <2>2, <1>2, <1>4, <1>5 DEF Write
  <2> QED BY <2>1, <2>2
<1>7. Delivered' = Delivered \cup {c}
  BY <1>5, <1>6 DEF Delivered
<1>8. Tally' = [Tally EXCEPT ![p].chunks = @ + 1]
  BY <1>2 DEF Tally
<1>9. p \notin Reported /\ Reported' = Reported
  BY <1>2 DEF Reported, Recorded
<1> QED BY <1>1, <1>2, <1>7, <1>8, <1>9 DEF Verdict!Arrive, Delivered, Tally, Reported

\* A chunk that fails its checksum is counted and places nothing.
LEMMA CorruptIsDamaged ==
    ASSUME SessionInv, NEW p \in Paths, ReadCorruptChunk(p)
    PROVE  Verdict!ArriveDamaged(p)
<1>1. /\ hpc[p] = "read" /\ hpc' = hpc
      /\ chunks \in [Paths -> Nat] /\ corrupted \in [Paths -> Nat]
      /\ chunks' = [chunks EXCEPT ![p] = @ + 1]
      /\ corrupted' = [corrupted EXCEPT ![p] = @ + 1]
      /\ result' = result /\ received' = received
  BY DEF SessionInv, ServerTypeOK, ReadCorruptChunk, rvars
<1>2. Tally' = [Tally EXCEPT ![p].chunks = @ + 1, ![p].corrupted = @ + 1]
  BY <1>1 DEF Tally
<1>3. Delivered' = Delivered /\ Reported' = Reported /\ p \notin Reported
  BY <1>1 DEF Delivered, Reported, Recorded
<1> QED BY <1>1, <1>2, <1>3 DEF Verdict!ArriveDamaged, Delivered, Tally, Reported

\* pathDone closes the path into the report.
LEMMA RecordIsReport ==
    ASSUME SessionInv, NEW p \in Paths, RecordPath(p)
    PROVE  Verdict!Report(p)
<1>1. /\ hpc \in [Paths -> Handlers] /\ hpc[p] = "done"
      /\ hpc' = [hpc EXCEPT ![p] = "recorded"]
      /\ UNCHANGED <<chunks, corrupted, result, received>>
  BY DEF SessionInv, ServerTypeOK, RecordPath, At, rvars
<1>2. p \notin Reported /\ Reported' = Reported \cup {p}
  BY <1>1 DEF Reported, Recorded
<1>3. Tally' = Tally /\ Delivered' = Delivered
  BY <1>1 DEF Tally, Delivered
<1> QED BY <1>1, <1>2, <1>3 DEF Verdict!Report, Delivered, Tally, Reported

\* finalize decides, and decides what was promised.
LEMMA FinalizeIsDecide ==
    ASSUME SessionInv, Finalize
    PROVE  Verdict!Decide
<1>1. /\ sess = "ready" /\ wg = 0 /\ result = "none"
      /\ result' = IF NoCorruptedRow /\ Complete THEN "ok" ELSE "bad"
      /\ UNCHANGED <<hpc, chunks, corrupted, received>>
  BY DEF Finalize, FinalizeAs, rvars
<1>2. ReassemblerInv
  BY <1>1 DEF SessionInv
<1>3. Complete <=> Delivered = SplitSeqs
  <2>1. DOMAIN received = SplitSeqs /\ SplitSeqs = 0..(NumChunks - 1)
    BY <1>2, ChunkNumbers DEF ReassemblerInv, ReassemblerTypeOK
  <2>2. Complete <=> \A i \in SplitSeqs : received[i]
    BY <1>2, <2>1, CompletePayload
  <2> QED BY <2>1, <2>2 DEF Delivered
<1>4. Reported = Paths
  BY <1>1, ZeroMeansAll DEF Reported, Counted, Recorded
<1>5. NoCorruptedRow <=> \A p \in Paths : Tally[p].corrupted = 0
  BY <1>1, ZeroMeansAll DEF Tally
<1>6. UNCHANGED <<Delivered, Tally, Reported>>
  BY <1>1 DEF Delivered, Tally, Reported
<1> QED BY <1>1, <1>3, <1>4, <1>5, <1>6 DEF Verdict!Decide, Delivered, Tally, Reported

\* Each step of the server is a step of the promise or is invisible to it.
LEMMA HandlerRefines ==
    ASSUME SessionInv, NilInv, NEW p \in Paths, HandlerStep(p)
    PROVE  [Verdict!Next]_(Verdict!ivars)
<1>0. hpc \in [Paths -> Handlers]
  BY DEF SessionInv, ServerTypeOK
<1>1. CASE ReadChunk(p)
  BY <1>1, ReadIsArrive DEF Verdict!Next
<1>2. CASE ReadCorruptChunk(p)
  BY <1>2, CorruptIsDamaged DEF Verdict!Next
<1>3. CASE RecordPath(p)
  BY <1>3, RecordIsReport DEF Verdict!Next
<1>4. ASSUME UNCHANGED <<Delivered, Tally, Reported, result>>
      PROVE  UNCHANGED Verdict!ivars
  BY <1>4 DEF Verdict!ivars, Delivered, Tally, Reported
<1>5. CASE Start(p)
  <2>1. Delivered = {} /\ Delivered' = {}
    BY <1>5 DEF Start, StartAdding, NilInv, Delivered, NewReassembler
  <2>2. UNCHANGED <<Delivered, Tally, Reported, result>>
    BY <1>0, <1>5, <2>1, Invisible DEF Start, StartAdding, At, Recorded
  <2> QED BY <1>4, <2>2
<1>6. CASE \/ Accept(p) \/ AcceptFails(p) \/ WaitReady(p) \/ WaitReadyTimesOut(p)
           \/ LogDelivery(p) \/ StopReading(p)
  <2>1. UNCHANGED received /\ UNCHANGED <<chunks, corrupted, result>>
    BY <1>6 DEF Accept, AcceptFails, Abort, WaitReady, WaitReadyTimesOut,
        LogDelivery, StopReading, rvars
  <2>2. \E y \in {"accept", "aborted", "read", "done"} :
          hpc' = [hpc EXCEPT ![p] = y] /\ hpc[p] \in {"none", "accept", "wait", "log", "read"}
    BY <1>6 DEF Accept, AcceptFails, Abort, WaitReady, WaitReadyTimesOut,
        LogDelivery, StopReading, At
  <2>3. UNCHANGED <<Delivered, Tally, Reported, result>>
    BY <1>0, <2>1, <2>2, Invisible DEF Delivered, Recorded
  <2> QED BY <1>4, <2>3
<1>7. CASE GetOrCreate(p)
  <2>1. UNCHANGED received /\ UNCHANGED <<chunks, corrupted, result>>
    BY <1>7 DEF GetOrCreate, rvars
  <2>2. \E y \in {"start", "wait"} : hpc' = [hpc EXCEPT ![p] = y] /\ hpc[p] = "accept"
    BY <1>7 DEF GetOrCreate, At
  <2>3. UNCHANGED <<Delivered, Tally, Reported, result>>
    BY <1>0, <2>1, <2>2, Invisible DEF Delivered, Recorded
  <2> QED BY <1>4, <2>3
<1>8. CASE WgDone(p) \/ WriteAck(p) \/ CloseNow(p)
  <2>1. UNCHANGED received /\ UNCHANGED <<chunks, corrupted, result>>
    BY <1>8 DEF WgDone, WriteAck, CloseNow, rvars
  <2>2. \E y \in {"counted", "acked", "closed"} :
          hpc' = [hpc EXCEPT ![p] = y] /\ hpc[p] \in {"recorded", "counted"}
    BY <1>8 DEF WgDone, WriteAck, CloseNow, At
  <2>3. UNCHANGED <<Delivered, Tally, Reported, result>>
    BY <1>0, <2>1, <2>2, Invisible DEF Delivered, Recorded
  <2> QED BY <1>4, <2>3
<1> QED BY <1>1, <1>2, <1>3, <1>5, <1>6, <1>7, <1>8 DEF HandlerStep

\* The handlers, the WaitGroup and the reassembler implement IntegrityVerdict:
\* a path is reported once and counted on no more, and the verdict is given
\* once, when all paths are reported, and is the right one.
THEOREM SessionImplementsVerdict == ServerSpec => KeepsItsPromise
<1>1. QuicInit /\ ServerInit => Verdict!Init /\ NilInv
  <2> SUFFICES ASSUME ServerInit PROVE Verdict!Init /\ NilInv
    OBVIOUS
  <2>1. Delivered = {} /\ NilInv
    BY DEF ServerInit, NoReassembler, Delivered, NilInv
  <2>2. Tally = [p \in Paths |-> [chunks |-> 0, corrupted |-> 0]]
    BY DEF ServerInit, Tally
  <2>3. Reported = {}
    BY DEF ServerInit, Reported, Recorded
  <2> QED BY <2>1, <2>2, <2>3 DEF Verdict!Init, ServerInit, Delivered, Tally, Reported
<1>2. SessionInv /\ NilInv /\ [ServerNext]_<<qvars, svars, rvars>>
        => NilInv' /\ [Verdict!Next]_(Verdict!ivars)
  <2> SUFFICES ASSUME SessionInv, NilInv, [ServerNext]_<<qvars, svars, rvars>>
               PROVE  [Verdict!Next]_(Verdict!ivars)
    BY NilStep
  <2>1. CASE Finalize
    BY <2>1, FinalizeIsDecide DEF Verdict!Next
  <2>2. ASSUME NEW p \in Paths, HandlerStep(p)
        PROVE  [Verdict!Next]_(Verdict!ivars)
    BY <2>2, HandlerRefines
  <2>3. CASE UNCHANGED <<svars, rvars>>
    BY <2>3 DEF svars, rvars, Verdict!ivars
  <2> QED BY <2>1, <2>2, <2>3 DEF ServerNext, ServerStep, PeerGone, PeerStep
<1> QED BY <1>1, <1>2, SessionInvariant, PTL DEF ServerSpec, InitSession, KeepsItsPromise, Verdict!Spec
=============================================================================
