-------------------------- MODULE PathStreamProofs --------------------------
(***************************************************************************)
(* Proofs about a path's stream, for every width of the integers, every    *)
(* payload and chunk size, any number of bursts and any scheduling.  The   *)
(* argument numbers all fields that are ever written on the stream (the    *)
(* preamble's, then seven for each chunk placed): what is in flight is the *)
(* fields from the last one read to the last one written (Cut), and each   *)
(* field is read with the width it was written with (ChunkWidths and the   *)
(* lemmas beside it), so the reader never slips.                           *)
(***************************************************************************)
EXTENDS PathStream, Counting

-----------------------------------------------------------------------------
\* The inductive invariant.

\* A chunk whose numbers fit their fields and whose data is not empty.
FitsWire(c) ==
    /\ c.seq \in 0..(Room[W64] - 1) /\ c.offset \in 0..(Room[W64] - 1)
    /\ c.burstID \in 0..(Room[W64] - 1) /\ c.burstBytes \in 0..(Room[W64] - 1)
    /\ c.data \in Seq(0..(Base - 1)) /\ Len(c.data) \in 1..(Room[W32] - 1)

\* The i-th chunk of a burst of size bytes cut into pieces of piece bytes.
ChunkMade(c, i, piece, size, id) ==
    /\ c.seq = i - 1 /\ c.offset = (i - 1) * piece /\ c.offset < size
    /\ c.burstID = id /\ c.burstBytes = size
    /\ c.data \in Seq(0..(Base - 1))
    /\ Len(c.data) = Min({c.offset + piece, size}) - c.offset

\* Split's loop has made the chunks it should have made so far.
ClientInv ==
    /\ opt \in Transfers /\ pathIndex \in PathIndexes
    /\ burst \in 1..Len(opt.sizes)
    /\ \E S : chunks \in Seq(S)
    /\ next \in 0..Len(chunks)
    /\ offset = Len(chunks) * SplitSize
    /\ \A i \in 1..Len(chunks) : ChunkMade(chunks[i], i, SplitSize, Size, BurstID)
    /\ cpc \in {"send", "closed"} => offset >= Size
    /\ cpc = "closed" => next = Len(chunks) /\ burst = Len(opt.sizes)
    /\ fin => cpc = "closed"

\* All fields ever written on a stream with the preamble pre for the chunks pl.
ScriptOf(pre, pl) ==
    [j \in 1..(Len(pre) + 7 * Len(pl)) |->
        IF j <= Len(pre) THEN pre[j]
        ELSE WriteChunk(pl[(j - Len(pre) - 1) \div 7 + 1])[((j - Len(pre) - 1) % 7) + 1]]

Script == ScriptOf(WritePreamble, placed)
Head0 == Len(WritePreamble)
Total == Head0 + 7 * Len(placed)
Written == Total - Len(pending)

\* What is still to be written is the end of the script.
WriterInv ==
    /\ \E S : placed \in Seq(S)
    /\ \A i \in 1..Len(placed) : FitsWire(placed[i])
    /\ \E n \in 0..Total : pending = [k \in 1..n |-> Script[Total - n + k]]
    /\ cpc = "closed" => pending = << >>

\* The fields of earlier messages that were read, and those of this one.
Before ==
    IF reading = "kind" THEN 0
    ELSE IF reading = "chunk" THEN Head0 + 7 * Len(frames) ELSE 1
Count == Cardinality(DOMAIN got)

\* msg holds n fields of a message, decoded from fields from+1, from+2, ... of F.
Decoded(msg, names, F, from, n) ==
    /\ DOMAIN msg = {names[i] : i \in 1..n} /\ msg = [f \in DOMAIN msg |-> msg[f]]
    /\ \A i \in 1..n : msg[names[i]] = Decode(names[i], F[from + i])

PreambleFields == IF pathIndex = 0 THEN ReadControlHeader ELSE ReadPathHello

ReaderInv ==
    /\ reading \in {"kind", "control", "hello", "chunk"}
    /\ reading = "control" => pathIndex = 0
    /\ reading = "hello" => pathIndex # 0
    /\ \E n \in 0..(Len(Fields) - 1) : Decoded(got, Fields, Script, Before, n)
    /\ reading # "chunk" => preamble = << >> /\ frames = << >>
    /\ reading = "chunk" =>
          Decoded(preamble, PreambleFields, Script, 1, Len(PreambleFields))
    /\ \E S : frames \in Seq(S)
    /\ \A i \in 1..Len(frames) : Decoded(frames[i], ReadChunk, Script, Head0 + 7 * (i - 1), 7)
    /\ rpc = "eof" => cpc = "closed" /\ Len(frames) = Len(placed)

\* The bytes of s after the first x start with those of f.
FieldIn(s, x, f) == \A j \in 1..Len(f) : s[x + j] = f[j]

\* The bytes s are fields r+1 to w of F, one after the other; o[i] is where
\* field i ends.
CutAt(s, F, r, w, o) ==
    /\ r \in Nat /\ w \in Nat /\ r <= w
    /\ o \in [r..w -> Nat]
    /\ o[r] = 0 /\ o[w] = Len(s)
    /\ \A i \in (r + 1)..w :
          /\ o[i] = o[i - 1] + Len(F[i])
          /\ FieldIn(s, o[i - 1], F[i])

Cut(s, F, r, w) == \E o : CutAt(s, F, r, w, o)

StreamInv ==
    /\ stream \in Seq(Nat)
    /\ Cut(stream, Script, Before + Count, Written)

PathStreamInv == ClientInv /\ WriterInv /\ ReaderInv /\ StreamInv
-----------------------------------------------------------------------------
\* Powers of Base, and the integers written with them.

\* g holds the first n powers.
Powers(g, n) ==
    /\ g \in [0..n -> Nat \ {0}]
    /\ g[0] = 1
    /\ \A i \in 1..n : g[i] = Base * g[i - 1]

\* There are as many powers as one likes.
LEMMA PowersExist ==
    ASSUME NEW n \in Nat
    PROVE  \E g : Powers(g, n)
<1> DEFINE U == {k \in Nat : ~\E g : Powers(g, k)}
<1> SUFFICES ASSUME U # {} PROVE FALSE
  OBVIOUS
<1>1. PICK k \in U : \A l \in U : k <= l
  BY LeastNumber
<1>2. k \in Nat
  OBVIOUS
<1>3. CASE k = 0
  <2>1. Powers([i \in 0..0 |-> 1], 0)
    BY DEF Powers
  <2> QED BY <1>3, <2>1
<1>4. CASE k # 0
  <2>1. k - 1 \in Nat /\ k - 1 \notin U
    BY <1>1, <1>2, <1>4, SMT
  <2>2. PICK g : Powers(g, k - 1)
    BY <2>1
  <2>3. g \in [0..(k - 1) -> Nat \ {0}] /\ g[0] = 1 /\ g[k - 1] \in Nat \ {0}
    BY <2>1, <2>2 DEF Powers
  <2> DEFINE h == [i \in 0..k |-> IF i = k THEN Base * g[k - 1] ELSE g[i]]
  <2>4. Base * g[k - 1] \in Nat \ {0}
    BY <2>3, WidthAssumption, SMT
  <2>5. h \in [0..k -> Nat \ {0}]
    BY <1>2, <2>3, <2>4
  <2>6. h[0] = 1
    BY <1>2, <1>4, <2>3
  <2>7. ASSUME NEW i \in 1..k PROVE h[i] = Base * h[i - 1]
    <3>1. h[i - 1] = g[i - 1]
      BY <1>2
    <3>2. CASE i = k
      BY <1>2, <1>4, <3>1, <3>2
    <3>3. CASE i # k
      <4>1. i \in 1..(k - 1)
        BY <1>2, <3>3
      <4>2. g[i] = Base * g[i - 1]
        BY <2>2, <4>1 DEF Powers
      <4>3. h[i] = g[i]
        BY <1>2, <3>3
      <4> HIDE DEF h
      <4> QED BY <3>1, <4>2, <4>3
    <3> QED BY <3>2, <3>3
  <2>8. Powers(h, k)
    BY <2>5, <2>6, <2>7 DEF Powers
  <2> HIDE DEF h
  <2> QED BY <2>8
<1> QED BY <1>3, <1>4

\* ... and they are determined.
LEMMA PowersUnique ==
    ASSUME NEW n \in Nat, NEW m \in Nat, n <= m, NEW g, Powers(g, n), NEW h, Powers(h, m)
    PROVE  g[n] = h[n]
<1> DEFINE U == {k \in 0..n : g[k] # h[k]}
<1>1. U \subseteq Nat
  OBVIOUS
<1> SUFFICES ASSUME U # {} PROVE FALSE
  OBVIOUS
<1>2. PICK k \in U : \A l \in U : k <= l
  BY <1>1, LeastNumber
<1>3. CASE k = 0
  BY <1>3 DEF Powers
<1>4. CASE k # 0
  <2>1. k - 1 \in 0..n /\ k - 1 \notin U
    BY <1>2, <1>4, SMT
  <2>2. g[k - 1] = h[k - 1]
    BY <2>1
  <2>3. k \in 1..n /\ k \in 1..m
    BY <1>4
  <2>4. g[k] = Base * g[k - 1] /\ h[k] = Base * h[k - 1]
    BY <2>3 DEF Powers
  <2> QED BY <2>2, <2>4
<1> QED BY <1>3, <1>4

\* Room is what its definition says.
LEMMA RoomFacts ==
    /\ Room \in [Nat -> Nat \ {0}]
    /\ Room[0] = 1
    /\ \A w \in Nat : Room[w + 1] = Base * Room[w]
<1> DEFINE P(n) == CHOOSE g : Powers(g, n)
           f == [n \in Nat |-> P(n)[n]]
<1>1. ASSUME NEW n \in Nat PROVE Powers(P(n), n)
  BY PowersExist
<1>2. ASSUME NEW n \in Nat PROVE f[n] \in Nat \ {0} /\ f[0] = 1
  <2>1. n \in 0..n /\ 0 \in Nat /\ Powers(P(n), n) /\ Powers(P(0), 0)
    BY <1>1
  <2> HIDE DEF P
  <2>2. P(n)[n] \in Nat \ {0} /\ P(0)[0] = 1
    BY <2>1 DEF Powers
  <2> QED BY <2>2
<1>3. ASSUME NEW n \in Nat \ {0} PROVE f[n] = Base * f[n - 1]
  <2>1. n - 1 \in Nat /\ n - 1 <= n /\ n \in 1..n
    BY SMT
  <2>2. Powers(P(n), n) /\ Powers(P(n - 1), n - 1)
    BY <1>1, <2>1
  <2> HIDE DEF P
  <2>3. P(n - 1)[n - 1] = P(n)[n - 1]
    BY <2>1, <2>2, PowersUnique
  <2>4. P(n)[n] = Base * P(n)[n - 1]
    BY <2>1, <2>2 DEF Powers
  <2> QED BY <2>1, <2>3, <2>4
<1> HIDE DEF f
<1>4. f = [n \in Nat |-> IF n = 0 THEN 1 ELSE Base * f[n - 1]]
  <2>1. f = [n \in Nat |-> f[n]]
    BY DEF f
  <2> QED BY <1>2, <1>3, <2>1
<1>5. Room = [w \in Nat |-> IF w = 0 THEN 1 ELSE Base * Room[w - 1]]
  BY <1>4 DEF Room
<1> DEFINE U == {k \in Nat : Room[k] \notin Nat \ {0}}
<1>6. U = {}
  <2> SUFFICES ASSUME U # {} PROVE FALSE
    OBVIOUS
  <2>1. PICK k \in U : \A l \in U : k <= l
    BY LeastNumber
  <2>2. k # 0
    BY <1>5
  <2>3. k - 1 \in Nat /\ k - 1 \notin U
    BY <2>1, <2>2, SMT
  <2>4. Room[k] = Base * Room[k - 1]
    BY <1>5, <2>2
  <2>5. Room[k - 1] \in Nat \ {0}
    BY <2>3
  <2> QED BY <2>4, <2>5, WidthAssumption, SMT
<1>7. Room \in [Nat -> Nat \ {0}]
  BY <1>5, <1>6
<1>8. ASSUME NEW w \in Nat PROVE Room[w + 1] = Base * Room[w]
  <2>1. w + 1 \in Nat /\ w + 1 # 0 /\ (w + 1) - 1 = w
    BY SMT
  <2> QED BY <1>5, <2>1
<1> QED BY <1>5, <1>7, <1>8

\* Dividing twice is dividing by the product.
LEMMA DivTwice ==
    ASSUME NEW v \in Nat, NEW p \in Nat \ {0}, NEW b \in Nat \ {0}
    PROVE  v \div p = (v \div (b * p)) * b + ((v \div p) % b)
<1> DEFINE q == v \div p
<1>1. q \in Nat /\ q * p <= v /\ v < q * p + p
  BY DivFacts, SMT
<1> HIDE DEF q
<1>2. /\ q \div b \in Nat /\ q % b \in 0..(b - 1)
      /\ q = (q \div b) * b + (q % b)
  BY <1>1, SMT
<1> DEFINE c == q \div b
           r == q % b
           d == b * p
<1>3. d \in Nat \ {0}
  BY SMT
<1>4. c \in Nat /\ r \in 0..(b - 1) /\ q = c * b + r
  BY <1>2
<1> HIDE DEF c, r
<1>5. c * d <= v /\ v < c * d + d
  <2>1. q * p = c * d + r * p
    BY <1>4, SMT
  <2>2. r * p \in Nat /\ r * p + p <= d
    <3>1. r \in Nat /\ r < b
      BY <1>4
    <3> QED BY <3>1, ProductOrder, SMT
  <2>3. c * d \in Nat
    BY <1>3, <1>4, SMT
  <2> HIDE DEF d
  <2> QED BY <1>1, <1>3, <2>1, <2>2, <2>3, SMT
<1> HIDE DEF d
<1>6. v \div d = c
  BY <1>3, <1>4, <1>5, DivUnique
<1> QED BY <1>4, <1>6 DEF q, c, r, d

\* encoding/binary: a number that fits w bytes is read as it was written.
LEMMA BigEndianRead ==
    ASSUME NEW w \in Nat, NEW v \in 0..(Room[w] - 1)
    PROVE  /\ BigEndian(v, w) \in Seq(0..(Base - 1))
           /\ Len(BigEndian(v, w)) = w
           /\ Value(BigEndian(v, w)) = v
<1> DEFINE b == BigEndian(v, w)
<1>0. v \in Nat /\ Room[w] \in Nat \ {0} /\ v < Room[w] /\ Base \in Nat \ {0}
  BY RoomFacts, WidthAssumption
<1>1. ASSUME NEW i \in 0..w PROVE w - i \in Nat /\ Room[w - i] \in Nat \ {0}
  BY RoomFacts
<1>2. ASSUME NEW i \in 1..w PROVE b[i] = (v \div Room[w - i]) % Base /\ b[i] \in 0..(Base - 1)
  <2>1. Room[w - i] \in Nat \ {0}
    BY <1>1
  <2>2. PICK p \in Nat \ {0} : p = Room[w - i]
    BY <2>1
  <2>3. (v \div p) % Base \in 0..(Base - 1)
    BY <1>0, DivFacts, SMT
  <2> QED BY <2>2, <2>3 DEF BigEndian
<1>3. b \in Seq(0..(Base - 1)) /\ Len(b) = w
  <2>1. b = [i \in 1..w |-> b[i]]
    BY DEF BigEndian
  <2>2. \A i \in 1..w : b[i] \in 0..(Base - 1)
    BY <1>2
  <2> HIDE DEF b
  <2>3. PICK S : S = 0..(Base - 1)
    OBVIOUS
  <2>4. b \in [1..w -> S]
    BY <2>1, <2>2, <2>3, Zenon
  <2>5. b \in Seq(S) /\ Len(b) = w
    BY <2>4
  <2> QED BY <2>3, <2>5
<1> DEFINE g == [i \in 0..w |-> v \div Room[w - i]]
<1>4. g[0] = 0
  <2>1. v \div Room[w] = 0
    BY <1>0, DivUnique, SMT
  <2> QED BY <2>1
<1>5. ASSUME NEW i \in 1..w PROVE g[i] = g[i - 1] * Base + b[i]
  <2>1. w - i \in Nat /\ w - (i - 1) = (w - i) + 1 /\ i - 1 \in 0..w /\ i \in 0..w
    BY SMT
  <2>2. Room[w - (i - 1)] = Base * Room[w - i]
    BY <2>1, RoomFacts
  <2>3. PICK p \in Nat \ {0} : p = Room[w - i]
    BY <1>1, <2>1
  <2>4. v \div p = (v \div (Base * p)) * Base + ((v \div p) % Base)
    BY <1>0, DivTwice
  <2>5. g[i] = v \div p /\ g[i - 1] = v \div (Base * p)
    BY <2>1, <2>2, <2>3
  <2>6. b[i] = (v \div p) % Base
    BY <1>2, <2>3
  <2> QED BY <2>4, <2>5, <2>6
<1>6. g[w] = v
  <2>1. w \in 0..w /\ w - w = 0
    BY SMT
  <2>2. v \div 1 = v
    BY <1>0, SMT
  <2> QED BY <2>1, <2>2, RoomFacts
<1>7. g = [i \in 0..w |-> g[i]]
  OBVIOUS
<1> HIDE DEF g, b
<1> DEFINE first[i \in 0..Len(b)] == IF i = 0 THEN 0 ELSE first[i - 1] * Base + b[i]
<1>8. g = [i \in 0..Len(b) |-> IF i = 0 THEN 0 ELSE g[i - 1] * Base + b[i]]
  BY <1>3, <1>4, <1>5, <1>7
<1>9. first = [i \in 0..Len(b) |-> IF i = 0 THEN 0 ELSE first[i - 1] * Base + b[i]]
  BY <1>8 DEF first
<1>10. Value(b) = first[Len(b)]
  BY DEF Value, first
<1> HIDE DEF first
<1> DEFINE U == {k \in 0..w : first[k] # g[k]}
<1>11. U = {}
  <2> SUFFICES ASSUME U # {} PROVE FALSE
    OBVIOUS
  <2>1. U \subseteq Nat
    OBVIOUS
  <2>2. PICK k \in U : \A l \in U : k <= l
    BY <2>1, LeastNumber
  <2>3. k # 0
    BY <1>3, <1>4, <1>9
  <2>4. k - 1 \in 0..w /\ k - 1 \notin U /\ k \in 1..w
    BY <2>2, <2>3, SMT
  <2>5. first[k - 1] = g[k - 1]
    BY <2>4
  <2>6. first[k] = first[k - 1] * Base + b[k]
    BY <1>3, <1>9, <2>4
  <2> QED BY <1>5, <2>4, <2>5, <2>6
<1>12. first[w] = g[w]
  BY <1>11
<1> QED BY <1>3, <1>6, <1>10, <1>12 DEF b

-----------------------------------------------------------------------------
\* The messages: what the writers write and what the readers make of it.

\* Bytes are numbers.
LEMMA BytesAreNumbers ==
    ASSUME NEW s, s \in Seq(0..(Base - 1))
    PROVE  s \in Seq(Nat)
<1>1. PICK S : S = 0..(Base - 1)
  OBVIOUS
<1>2. S \subseteq Nat /\ s \in Seq(S)
  BY <1>1, WidthAssumption
<1>3. PICK n \in Nat : n = Len(s)
  BY <1>2
<1>4. s = [i \in 1..n |-> s[i]] /\ \A i \in 1..n : s[i] \in S
  BY <1>2, <1>3
<1>5. s \in [1..n -> Nat]
  BY <1>2, <1>4, Zenon
<1> QED BY <1>5

\* A checksum fits a uint32.
LEMMA ChecksumFits ==
    ASSUME NEW data \in Seq(Nat)
    PROVE  ChecksumIEEE(data) \in 0..(Room[W32] - 1)
<1>1. PICK n \in Nat : n = Len(data)
  OBVIOUS
<1>2. IsFiniteSet(1..n)
  <2>1. 1 \in Int /\ n \in Int
    OBVIOUS
  <2> QED BY <2>1, FS_Interval
<1>3. \A x \in 1..n : data[x] \in Nat
  BY <1>1
<1>4. SumOver(1..n, data) \in Nat
  BY <1>2, <1>3, SumFinite
<1>5. PICK r \in Nat \ {0} : r = Room[W32]
  BY RoomFacts, WidthAssumption
<1>6. PICK s \in Nat : s = SumOver(1..n, data)
  BY <1>4
<1>7. s % r \in 0..(r - 1)
  BY SMT
<1> QED BY <1>1, <1>5, <1>6, <1>7 DEF ChecksumIEEE

\* A field of the stream: some bytes.
IsField(f) == f \in Seq(0..(Base - 1)) /\ Len(f) \in Nat \ {0}

\* An integer field.
LEMMA IntegerField ==
    ASSUME NEW w \in Nat \ {0}, NEW v \in 0..(Room[w] - 1)
    PROVE  /\ IsField(BigEndian(v, w)) /\ Len(BigEndian(v, w)) = w
           /\ Value(BigEndian(v, w)) = v
BY BigEndianRead DEF IsField

\* The stream kind is a single byte.
LEMMA OneByte ==
    ASSUME NEW v \in {0, 1}
    PROVE  Value(<<v>>) = v
<1>1. Room[0] = 1 /\ Room[1] = Base /\ Base \in Nat \ {0, 1}
  <2>1. Room[0 + 1] = Base * Room[0] /\ Room[0] = 1
    BY RoomFacts
  <2> QED BY <2>1, WidthAssumption, SMT
<1>2. v \in 0..(Room[1] - 1)
  BY <1>1
<1>3. Value(BigEndian(v, 1)) = v
  BY <1>2, BigEndianRead
<1>4. (v \div 1) % Base = v
  BY <1>1, SMT
<1>5. BigEndian(v, 1) = <<v>>
  <2>1. ASSUME NEW i \in 1..1 PROVE (v \div Room[1 - i]) % Base = v
    <3>1. 1 - i = 0
      BY SMT
    <3> QED BY <1>1, <1>4, <3>1
  <2>2. BigEndian(v, 1) = [i \in 1..1 |-> v]
    BY <2>1 DEF BigEndian
  <2> QED BY <2>2
<1> QED BY <1>3, <1>5

\* How wide the reader takes each field to be.
LEMMA Widths ==
    ASSUME NEW g
    PROVE  /\ Width("kind", g) = 1 /\ Width("schedLen", g) = W16
           /\ Width("chunkSize", g) = W32 /\ Width("numPaths", g) = W32
           /\ Width("pathIndex", g) = W32 /\ Width("len", g) = W32
           /\ Width("checksum", g) = W32 /\ Width("totalSize", g) = W64
           /\ Width("seq", g) = W64 /\ Width("offset", g) = W64
           /\ Width("burstID", g) = W64 /\ Width("burstBytes", g) = W64
           /\ Width("sessionID", g) = W128
           /\ Width("scheduler", g) = g.schedLen /\ Width("data", g) = g.len
BY DEF Width

\* WriteChunk's fields, and what ReadChunk makes of them (chunk.go:66-130).
LEMMA ChunkFields ==
    ASSUME NEW c, FitsWire(c), NEW F, F = WriteChunk(c)
    PROVE  /\ \A i \in 1..7 : IsField(F[i])
           /\ Len(F) = 7 /\ F = [i \in 1..7 |-> F[i]]
           /\ Len(F[1]) = W64 /\ Value(F[1]) = c.seq
           /\ Len(F[2]) = W64 /\ Value(F[2]) = c.offset
           /\ Len(F[3]) = W64 /\ Value(F[3]) = c.burstID
           /\ Len(F[4]) = W64 /\ Value(F[4]) = c.burstBytes
           /\ Len(F[5]) = W32 /\ Value(F[5]) = Len(c.data)
           /\ Len(F[6]) = W32 /\ Value(F[6]) = ChecksumIEEE(c.data)
           /\ F[7] = c.data
<1>1. /\ F[1] = BigEndian(c.seq, W64) /\ F[2] = BigEndian(c.offset, W64)
      /\ F[3] = BigEndian(c.burstID, W64) /\ F[4] = BigEndian(c.burstBytes, W64)
      /\ F[5] = BigEndian(Len(c.data), W32)
      /\ F[6] = BigEndian(ChecksumIEEE(c.data), W32) /\ F[7] = c.data
      /\ Len(F) = 7 /\ F = [i \in 1..7 |-> F[i]]
  BY DEF WriteChunk
<1>2. /\ c.seq \in 0..(Room[W64] - 1) /\ c.offset \in 0..(Room[W64] - 1)
      /\ c.burstID \in 0..(Room[W64] - 1) /\ c.burstBytes \in 0..(Room[W64] - 1)
      /\ c.data \in Seq(0..(Base - 1)) /\ Len(c.data) \in 1..(Room[W32] - 1)
  BY DEF FitsWire
<1>3. W64 \in Nat \ {0} /\ W32 \in Nat \ {0}
  BY WidthAssumption
<1>4. c.data \in Seq(Nat)
  BY <1>2, BytesAreNumbers
<1>5. ChecksumIEEE(c.data) \in 0..(Room[W32] - 1)
  BY <1>4, ChecksumFits
<1>6. Len(c.data) \in 0..(Room[W32] - 1) /\ Len(c.data) \in Nat \ {0}
  <2>1. PICK r \in Nat : r = Room[W32]
    BY <1>3, RoomFacts
  <2> QED BY <1>2, <2>1
<1>7. /\ Len(F[1]) = W64 /\ Value(F[1]) = c.seq /\ IsField(F[1])
      /\ Len(F[2]) = W64 /\ Value(F[2]) = c.offset /\ IsField(F[2])
  BY <1>1, <1>2, <1>3, IntegerField
<1>8. /\ Len(F[3]) = W64 /\ Value(F[3]) = c.burstID /\ IsField(F[3])
      /\ Len(F[4]) = W64 /\ Value(F[4]) = c.burstBytes /\ IsField(F[4])
  BY <1>1, <1>2, <1>3, IntegerField
<1>9. /\ Len(F[5]) = W32 /\ Value(F[5]) = Len(c.data) /\ IsField(F[5])
      /\ Len(F[6]) = W32 /\ Value(F[6]) = ChecksumIEEE(c.data) /\ IsField(F[6])
  BY <1>1, <1>3, <1>5, <1>6, IntegerField
<1>10. IsField(F[7])
  BY <1>1, <1>2, <1>6 DEF IsField
<1>11. \A i \in 1..7 : i = 1 \/ i = 2 \/ i = 3 \/ i = 4 \/ i = 5 \/ i = 6 \/ i = 7
  BY SMT
<1>12. \A i \in 1..7 : IsField(F[i])
  BY <1>7, <1>8, <1>9, <1>10, <1>11, Zenon
<1> QED BY <1>1, <1>7, <1>8, <1>9, <1>12

\* The numbers of the preamble fit their fields.
LEMMA PreambleFits ==
    ASSUME opt \in Transfers, pathIndex \in PathIndexes
    PROVE  /\ Control.sessionID \in 0..(Room[W128] - 1)
           /\ Control.totalSize \in 0..(Room[W64] - 1)
           /\ Control.chunkSize \in 0..(Room[W32] - 1)
           /\ Control.numPaths \in 0..(Room[W32] - 1)
           /\ Control.scheduler \in Seq(0..(Base - 1)) /\ Len(Control.scheduler) = 2
           /\ 2 \in 0..(Room[W16] - 1)
           /\ Hello.sessionID \in 0..(Room[W128] - 1)
           /\ Hello.pathIndex \in 0..(Room[W32] - 1)
           /\ <<0>> \in Seq(0..(Base - 1)) /\ <<1>> \in Seq(0..(Base - 1))
<1>1. /\ Room[W16] \in Nat /\ Room[W32] \in Nat \ {0} /\ Room[W64] \in Nat \ {0}
      /\ Base \in Nat \ {0, 1} /\ 2 < Room[W16] /\ 2 < Room[W32]
  BY RoomFacts, WidthAssumption, PathStreamAssumption
<1>2. Room[W128] \in Nat /\ 1 < Room[W128]
  <2>1. PICK k \in Nat : k + 1 = W128
    <3>1. W128 - 1 \in Nat /\ (W128 - 1) + 1 = W128
      BY WidthAssumption, SMT
    <3> QED BY <3>1
  <2>2. Room[W128] = Base * Room[k] /\ Room[k] \in Nat \ {0}
    BY <2>1, RoomFacts
  <2>3. PICK p \in Nat \ {0} : p = Room[k]
    BY <2>2
  <2>4. Base * p \in Nat /\ 1 < Base * p
    BY <1>1, SMT
  <2> QED BY <2>2, <2>3, <2>4
<1>3. /\ opt.chunkSize \in Nat /\ opt.sizes \in Seq(0..(Room[W64] - 1))
      /\ Len(opt.sizes) \in 1..(Room[W64] - 1)
  BY PathStreamAssumption
<1>4. opt.sizes[1] \in 0..(Room[W64] - 1) /\ 0 \in 0..(Room[W64] - 1)
  BY <1>1, <1>3
<1>5. Control.totalSize \in 0..(Room[W64] - 1)
  BY <1>4 DEF Control
<1>6. Control.chunkSize \in 0..(Room[W32] - 1)
  <2>1. PICK r \in Nat \ {0} : r = Room[W32]
    BY <1>1
  <2>2. PICK s \in Nat : s = opt.chunkSize
    BY <1>3
  <2>3. s % r \in 0..(r - 1)
    BY SMT
  <2> QED BY <2>1, <2>2, <2>3 DEF Control, Uint32
<1>7. Hello.pathIndex \in 0..(Room[W32] - 1)
  BY PathStreamAssumption DEF Hello
<1>8. 1 \in 0..(Base - 1) /\ 0 \in 0..(Base - 1)
  BY <1>1
<1>9. /\ Control.scheduler = <<1, 0>> /\ Control.sessionID = 1 /\ Hello.sessionID = 1
      /\ Control.numPaths = 2
  BY DEF Control, Hello
<1>10. PICK S : S = 0..(Base - 1)
  OBVIOUS
<1>11. <<1, 0>> \in Seq(S) /\ Len(<<1, 0>>) = 2 /\ <<0>> \in Seq(S) /\ <<1>> \in Seq(S)
  BY <1>8, <1>10
<1>12. 1 \in 0..(Room[W128] - 1) /\ 2 \in 0..(Room[W32] - 1) /\ 2 \in 0..(Room[W16] - 1)
  BY <1>1, <1>2
<1> QED BY <1>5, <1>6, <1>7, <1>9, <1>10, <1>11, <1>12

\* WriteControlHeader's fields, and what the readers make of them
\* (session.go:36-84).
LEMMA ControlFields ==
    ASSUME opt \in Transfers, pathIndex \in PathIndexes,
           NEW F, F = WriteControlHeader(Control)
    PROVE  /\ \A i \in 1..7 : IsField(F[i])
           /\ Len(F) = 7 /\ F = [i \in 1..7 |-> F[i]]
           /\ Len(F[1]) = 1 /\ Value(F[1]) = StreamKindControl
           /\ Len(F[2]) = W128 /\ Value(F[2]) = Control.sessionID
           /\ Len(F[3]) = W64 /\ Value(F[3]) = Control.totalSize
           /\ Len(F[4]) = W32 /\ Value(F[4]) = Control.chunkSize
           /\ Len(F[5]) = W32 /\ Value(F[5]) = Control.numPaths
           /\ Len(F[6]) = W16 /\ Value(F[6]) = Len(Control.scheduler)
           /\ F[7] = Control.scheduler
<1>1. /\ F[1] = <<StreamKindControl>> /\ F[2] = BigEndian(Control.sessionID, W128)
      /\ F[3] = BigEndian(Control.totalSize, W64)
      /\ F[4] = BigEndian(Control.chunkSize, W32)
      /\ F[5] = BigEndian(Control.numPaths, W32)
      /\ F[6] = BigEndian(Len(Control.scheduler), W16) /\ F[7] = Control.scheduler
      /\ Len(F) = 7 /\ F = [i \in 1..7 |-> F[i]]
  BY DEF WriteControlHeader
<1>2. /\ W64 \in Nat \ {0} /\ W32 \in Nat \ {0} /\ W16 \in Nat \ {0}
      /\ W128 \in Nat \ {0}
  BY WidthAssumption
<1>b. /\ Control.sessionID \in 0..(Room[W128] - 1)
      /\ Control.totalSize \in 0..(Room[W64] - 1)
      /\ Control.chunkSize \in 0..(Room[W32] - 1)
      /\ Control.numPaths \in 0..(Room[W32] - 1)
  BY PreambleFits, Zenon
<1>c. PICK id, size, piece, paths :
         /\ id = Control.sessionID /\ size = Control.totalSize
         /\ piece = Control.chunkSize /\ paths = Control.numPaths
  OBVIOUS
<1>d. /\ F[2] = BigEndian(id, W128) /\ F[3] = BigEndian(size, W64)
      /\ F[4] = BigEndian(piece, W32) /\ F[5] = BigEndian(paths, W32)
      /\ id \in 0..(Room[W128] - 1) /\ size \in 0..(Room[W64] - 1)
      /\ piece \in 0..(Room[W32] - 1) /\ paths \in 0..(Room[W32] - 1)
  BY <1>1, <1>b, <1>c, Zenon
<1>3. /\ Len(F[2]) = W128 /\ Value(F[2]) = Control.sessionID /\ IsField(F[2])
      /\ Len(F[3]) = W64 /\ Value(F[3]) = Control.totalSize /\ IsField(F[3])
  <2>1. Len(F[2]) = W128 /\ Value(F[2]) = id /\ IsField(F[2])
    BY <1>2, <1>d, IntegerField
  <2>2. Len(F[3]) = W64 /\ Value(F[3]) = size /\ IsField(F[3])
    BY <1>2, <1>d, IntegerField
  <2> QED BY <1>c, <2>1, <2>2, Zenon
<1>4. /\ Len(F[4]) = W32 /\ Value(F[4]) = Control.chunkSize /\ IsField(F[4])
      /\ Len(F[5]) = W32 /\ Value(F[5]) = Control.numPaths /\ IsField(F[5])
  <2>1. Len(F[4]) = W32 /\ Value(F[4]) = piece /\ IsField(F[4])
    BY <1>2, <1>d, IntegerField
  <2>2. Len(F[5]) = W32 /\ Value(F[5]) = paths /\ IsField(F[5])
    BY <1>2, <1>d, IntegerField
  <2> QED BY <1>c, <2>1, <2>2, Zenon
<1>5. Len(F[6]) = W16 /\ Value(F[6]) = Len(Control.scheduler) /\ IsField(F[6])
  <2>1. Len(Control.scheduler) \in 0..(Room[W16] - 1)
    BY PreambleFits, Zenon
  <2> QED BY <1>1, <1>2, <2>1, IntegerField
<1>6. IsField(F[7])
  <2>1. Control.scheduler \in Seq(0..(Base - 1)) /\ Len(Control.scheduler) = 2
    BY PreambleFits, Zenon
  <2>2. Len(Control.scheduler) \in Nat \ {0}
    BY <2>1
  <2> QED BY <1>1, <2>1, <2>2, Zenon DEF IsField
<1>7. Len(F[1]) = 1 /\ Value(F[1]) = StreamKindControl /\ IsField(F[1])
  <2>1. F[1] = <<0>> /\ Len(<<0>>) = 1
    BY <1>1 DEF StreamKindControl
  <2>2. IsField(F[1])
    BY <2>1, PreambleFits DEF IsField
  <2>3. Value(<<0>>) = 0
    BY OneByte
  <2> QED BY <2>1, <2>2, <2>3 DEF StreamKindControl
<1>8. \A i \in 1..7 : i = 1 \/ i = 2 \/ i = 3 \/ i = 4 \/ i = 5 \/ i = 6 \/ i = 7
  BY SMT
<1>9. \A i \in 1..7 : IsField(F[i])
  BY <1>3, <1>4, <1>5, <1>6, <1>7, <1>8, Zenon
<1> QED BY <1>1, <1>3, <1>4, <1>5, <1>7, <1>9

\* WritePathHello's fields, and what the readers make of them
\* (session.go:92-120).
LEMMA HelloFields ==
    ASSUME opt \in Transfers, pathIndex \in PathIndexes,
           NEW F, F = WritePathHello(Hello)
    PROVE  /\ \A i \in 1..3 : IsField(F[i])
           /\ Len(F) = 3 /\ F = [i \in 1..3 |-> F[i]]
           /\ Len(F[1]) = 1 /\ Value(F[1]) = StreamKindPath
           /\ Len(F[2]) = W128 /\ Value(F[2]) = Hello.sessionID
           /\ Len(F[3]) = W32 /\ Value(F[3]) = Hello.pathIndex
<1>1. /\ F[1] = <<StreamKindPath>> /\ F[2] = BigEndian(Hello.sessionID, W128)
      /\ F[3] = BigEndian(Hello.pathIndex, W32)
      /\ Len(F) = 3 /\ F = [i \in 1..3 |-> F[i]]
  BY DEF WritePathHello
<1>2. W32 \in Nat \ {0} /\ W128 \in Nat \ {0}
  BY WidthAssumption
<1>3. /\ Len(F[2]) = W128 /\ Value(F[2]) = Hello.sessionID /\ IsField(F[2])
      /\ Len(F[3]) = W32 /\ Value(F[3]) = Hello.pathIndex /\ IsField(F[3])
  BY <1>1, <1>2, PreambleFits, IntegerField
<1>4. Len(F[1]) = 1 /\ Value(F[1]) = StreamKindPath /\ IsField(F[1])
  <2>1. F[1] = <<1>> /\ Len(<<1>>) = 1
    BY <1>1 DEF StreamKindPath
  <2>2. IsField(F[1])
    BY <2>1, PreambleFits DEF IsField
  <2>3. Value(<<1>>) = 1
    BY OneByte
  <2> QED BY <2>1, <2>2, <2>3 DEF StreamKindPath
<1>5. \A i \in 1..3 : i = 1 \/ i = 2 \/ i = 3
  BY SMT
<1>6. \A i \in 1..3 : IsField(F[i])
  BY <1>3, <1>4, <1>5, Zenon
<1> QED BY <1>1, <1>3, <1>4, <1>6

-----------------------------------------------------------------------------
\* Bytes in flight, cut into fields.

\* A sequence that never falls from one place to the next never falls.
LEMMA Rising ==
    ASSUME NEW r \in Nat, NEW w \in Nat, NEW o \in [r..w -> Nat],
           \A i \in (r + 1)..w : o[i - 1] <= o[i],
           NEW a \in r..w, NEW b \in r..w, a <= b
    PROVE  o[a] <= o[b]
<1> DEFINE U == {k \in a..w : ~(o[a] <= o[k])}
<1>0. b \in a..w
  BY SMT
<1> SUFFICES ASSUME U # {} PROVE FALSE
  BY <1>0
<1>1. U \subseteq Nat
  OBVIOUS
<1>2. PICK k \in U : \A l \in U : k <= l
  BY <1>1, LeastNumber
<1>3. k # a /\ k \in r..w
  BY SMT
<1>4. k - 1 \in a..w /\ k - 1 \notin U /\ k \in (r + 1)..w /\ k - 1 \in r..w
  BY <1>2, <1>3, SMT
<1>5. o[a] <= o[k - 1]
  BY <1>4
<1>6. o[k - 1] <= o[k]
  BY <1>4
<1>7. o[a] \in Nat /\ o[k - 1] \in Nat /\ o[k] \in Nat
  BY <1>3, <1>4
<1> QED BY <1>5, <1>6, <1>7, SMT

\* A cut's places never fall.
LEMMA CutRises ==
    ASSUME NEW s, NEW F, NEW r, NEW w, NEW o, CutAt(s, F, r, w, o),
           \A i \in (r + 1)..w : IsField(F[i]),
           NEW a \in r..w, NEW b \in r..w, a <= b
    PROVE  o[a] <= o[b]
<1>1. r \in Nat /\ w \in Nat /\ o \in [r..w -> Nat]
  BY DEF CutAt
<1>2. ASSUME NEW i \in (r + 1)..w PROVE o[i - 1] <= o[i]
  <2>1. o[i] = o[i - 1] + Len(F[i])
    BY DEF CutAt
  <2>2. Len(F[i]) \in Nat
    BY DEF IsField
  <2>3. i - 1 \in r..w
    BY <1>1
  <2>4. o[i - 1] \in Nat
    BY <1>1, <2>3
  <2> QED BY <2>1, <2>2, <2>4, SMT
<1> QED BY <1>1, <1>2, Rising

\* Nothing is in flight when everything written was read, and only then.
LEMMA CutNothing ==
    ASSUME NEW F, NEW r \in Nat
    PROVE  /\ Cut(<< >>, F, r, r)
           /\ \A s : Cut(s, F, r, r) => Len(s) = 0
<1> DEFINE o == [i \in r..r |-> 0]
<1>1. CutAt(<< >>, F, r, r, o)
  BY DEF CutAt
<1> HIDE DEF o
<1>2. ASSUME NEW s, Cut(s, F, r, r) PROVE Len(s) = 0
  <2>1. PICK p : CutAt(s, F, r, r, p)
    BY <1>2 DEF Cut
  <2> QED BY <2>1 DEF CutAt
<1> QED BY <1>1, <1>2 DEF Cut

\* Only the fields in flight matter.
LEMMA CutSame ==
    ASSUME NEW s, NEW F, NEW r, NEW w, Cut(s, F, r, w),
           NEW G, \A i \in (r + 1)..w : F[i] = G[i]
    PROVE  Cut(s, G, r, w)
<1>1. PICK o : CutAt(s, F, r, w, o)
  BY DEF Cut
<1>2. ASSUME NEW i \in (r + 1)..w
      PROVE  /\ o[i] = o[i - 1] + Len(G[i])
             /\ FieldIn(s, o[i - 1], G[i])
  <2>1. /\ o[i] = o[i - 1] + Len(F[i])
        /\ FieldIn(s, o[i - 1], F[i])
    BY <1>1 DEF CutAt
  <2>2. F[i] = G[i]
    OBVIOUS
  <2> QED BY <2>1, <2>2, Zenon
<1>3. CutAt(s, G, r, w, o)
  BY <1>1, <1>2, Zenon DEF CutAt
<1> QED BY <1>3 DEF Cut

\* A field keeps its bytes when more bytes follow.
LEMMA KeptField ==
    ASSUME NEW s \in Seq(Nat), NEW g \in Seq(Nat), NEW t, t = s \o g,
           NEW x \in Nat, NEW f, Len(f) \in Nat, x + Len(f) <= Len(s), FieldIn(s, x, f)
    PROVE  FieldIn(t, x, f)
<1>1. PICK l \in Nat : l = Len(f)
  OBVIOUS
<1>2. x + l <= Len(s) /\ \A j \in 1..l : s[x + j] = f[j]
  BY <1>1 DEF FieldIn
<1>3. \A k \in 1..Len(s) : t[k] = s[k]
  OBVIOUS
<1>4. \A j \in 1..l : x + j \in 1..Len(s)
  BY <1>2
<1> QED BY <1>1, <1>2, <1>3, <1>4 DEF FieldIn

\* One Write: the next field is appended.
LEMMA CutGrows ==
    ASSUME NEW s \in Seq(Nat), NEW F, NEW r, NEW w, Cut(s, F, r, w),
           \A i \in (r + 1)..(w + 1) : IsField(F[i])
    PROVE  s \o F[w + 1] \in Seq(Nat) /\ Cut(s \o F[w + 1], F, r, w + 1)
<1>1. PICK o : CutAt(s, F, r, w, o)
  BY DEF Cut
<1>2. /\ r \in Nat /\ w \in Nat /\ r <= w /\ o \in [r..w -> Nat]
      /\ o[r] = 0 /\ o[w] = Len(s)
  BY <1>1 DEF CutAt
<1>3. IsField(F[w + 1])
  <2>1. w + 1 \in (r + 1)..(w + 1)
    BY <1>2
  <2> QED BY <2>1
<1>4. F[w + 1] \in Seq(Nat) /\ Len(F[w + 1]) \in Nat
  BY <1>3, BytesAreNumbers DEF IsField
<1>5. PICK f \in Seq(Nat) : f = F[w + 1]
  BY <1>4
<1>6. PICK t : t = s \o f
  OBVIOUS
<1>7. /\ t \in Seq(Nat) /\ Len(t) = Len(s) + Len(f)
      /\ \A j \in 1..Len(s) : t[j] = s[j]
      /\ \A j \in 1..Len(f) : t[Len(s) + j] = f[j]
  BY <1>6
<1> DEFINE p == [i \in r..(w + 1) |-> IF i = w + 1 THEN Len(t) ELSE o[i]]
<1>8. /\ p \in [r..(w + 1) -> Nat] /\ p[r] = 0 /\ p[w + 1] = Len(t)
      /\ \A i \in r..w : p[i] = o[i]
  BY <1>2, <1>7
<1> HIDE DEF p
<1>9. ASSUME NEW i \in (r + 1)..(w + 1)
      PROVE  /\ p[i] = p[i - 1] + Len(F[i])
             /\ FieldIn(t, p[i - 1], F[i])
  <2>1. CASE i = w + 1
    <3>1. i - 1 = w /\ w \in r..w
      BY <1>2, <2>1
    <3>2. p[i - 1] = Len(s) /\ p[i] = Len(t) /\ F[i] = f
      BY <1>2, <1>5, <1>8, <2>1, <3>1
    <3> QED BY <1>7, <3>2 DEF FieldIn
  <2>2. CASE i # w + 1
    <3>1. i \in (r + 1)..w /\ i - 1 \in r..w /\ i \in r..w /\ w \in r..w /\ i <= w
      BY <1>2, <2>2, SMT
    <3>2. /\ o[i] = o[i - 1] + Len(F[i])
          /\ FieldIn(s, o[i - 1], F[i])
      BY <1>1, <3>1 DEF CutAt
    <3>3. \A k \in (r + 1)..w : IsField(F[k])
      BY <1>2
    <3>4. o[i] <= o[w]
      BY <1>1, <3>1, <3>3, CutRises
    <3>5. p[i] = o[i] /\ p[i - 1] = o[i - 1]
      BY <1>8, <3>1
    <3>6. o[i] \in Nat /\ o[i - 1] \in Nat /\ Len(s) \in Nat /\ Len(F[i]) \in Nat
      BY <1>2, <3>1 DEF IsField
    <3>7. o[i - 1] + Len(F[i]) <= Len(s)
      BY <1>2, <3>2, <3>4
    <3>8. FieldIn(t, o[i - 1], F[i])
      BY <1>6, <3>2, <3>6, <3>7, KeptField
    <3> QED BY <3>2, <3>5, <3>8, Zenon
  <2> QED BY <2>1, <2>2
<1>10. r <= w + 1 /\ w + 1 \in Nat
  BY <1>2
<1>11. CutAt(t, F, r, w + 1, p)
  BY <1>2, <1>8, <1>9, <1>10 DEF CutAt
<1> QED BY <1>5, <1>6, <1>7, <1>11 DEF Cut

\* What is left of a sequence without its first n elements.
LEMMA WithoutFirst ==
    ASSUME NEW s \in Seq(Nat), NEW n \in Nat, n <= Len(s),
           NEW t, t = SubSeq(s, n + 1, Len(s))
    PROVE  /\ t \in Seq(Nat) /\ Len(t) = Len(s) - n
           /\ \A j \in 1..(Len(s) - n) : t[j] = s[n + j]
OBVIOUS

\* A field keeps its bytes when n bytes before it are taken away.
LEMMA ShiftedField ==
    ASSUME NEW s \in Seq(Nat), NEW n \in Nat, NEW t, t = SubSeq(s, n + 1, Len(s)),
           NEW x \in Nat, n <= x, NEW f, Len(f) \in Nat, x + Len(f) <= Len(s),
           FieldIn(s, x, f)
    PROVE  FieldIn(t, x - n, f)
<1>1. PICK l \in Nat : l = Len(f)
  OBVIOUS
<1>2. PICK z \in Nat : z = Len(s)
  OBVIOUS
<1>3. x + l <= z /\ n <= z /\ \A j \in 1..l : s[x + j] = f[j]
  BY <1>1, <1>2 DEF FieldIn
<1>4. \A k \in 1..(z - n) : t[k] = s[n + k]
  <2>1. n <= Len(s)
    BY <1>2, <1>3
  <2> QED BY <1>2, <2>1, WithoutFirst, Zenon
<1>5. ASSUME NEW j \in 1..l PROVE t[(x - n) + j] = f[j]
  <2>1. (x - n) + j \in 1..(z - n) /\ n + ((x - n) + j) = x + j
    BY <1>3
  <2> QED BY <1>3, <1>4, <2>1
<1> QED BY <1>1, <1>5 DEF FieldIn

\* One read: the first field in flight, if it is taken with its own length.
LEMMA CutShrinks ==
    ASSUME NEW s \in Seq(Nat), NEW F, NEW r \in Nat, NEW w \in Nat,
           Cut(s, F, r, w), r < w,
           \A i \in (r + 1)..w : IsField(F[i])
    PROVE  \E n \in Nat :
           /\ n = Len(F[r + 1]) /\ n <= Len(s) /\ Len(s) > 0
           /\ SubSeq(s, 1, n) = F[r + 1]
           /\ SubSeq(s, n + 1, Len(s)) \in Seq(Nat)
           /\ Cut(SubSeq(s, n + 1, Len(s)), F, r + 1, w)
<1>1. PICK o : CutAt(s, F, r, w, o)
  BY DEF Cut
<1>2. /\ r \in Nat /\ w \in Nat /\ r <= w /\ o \in [r..w -> Nat]
      /\ o[r] = 0 /\ o[w] = Len(s)
  BY <1>1 DEF CutAt
<1>3. /\ r + 1 \in (r + 1)..w /\ (r + 1) - 1 = r /\ r \in r..w /\ w \in r..w
      /\ r + 1 \in r..w /\ r + 1 <= w
  BY <1>2
<1>4. IsField(F[r + 1])
  BY <1>3
<1>5. F[r + 1] \in Seq(Nat) /\ Len(F[r + 1]) \in Nat \ {0}
  BY <1>4, BytesAreNumbers DEF IsField
<1>6. PICK f \in Seq(Nat) : f = F[r + 1]
  BY <1>5
<1>7. /\ o[r + 1] = o[r] + Len(F[r + 1])
      /\ FieldIn(s, o[r], F[r + 1])
  <2>1. /\ o[r + 1] = o[(r + 1) - 1] + Len(F[r + 1])
        /\ FieldIn(s, o[(r + 1) - 1], F[r + 1])
    BY <1>1, <1>3 DEF CutAt
  <2> QED BY <1>3, <2>1
<1>8. PICK n \in Nat : n > 0 /\ n = Len(f) /\ o[r + 1] = n
  BY <1>2, <1>5, <1>6, <1>7
<1>9. \A j \in 1..n : s[j] = f[j]
  <2>1. \A j \in 1..n : 0 + j = j
    OBVIOUS
  <2> QED BY <1>2, <1>6, <1>7, <1>8, <2>1 DEF FieldIn
<1>10. o[r + 1] <= o[w]
  BY <1>1, <1>3, CutRises
<1>11. n <= Len(s) /\ Len(s) \in Nat /\ Len(s) > 0
  BY <1>2, <1>8, <1>10
<1>12. SubSeq(s, 1, n) = f
  <2>1. SubSeq(s, 1, n) = [j \in 1..n |-> s[j]]
    BY <1>8, <1>11
  <2>2. f = [j \in 1..n |-> f[j]]
    BY <1>8
  <2> QED BY <1>9, <2>1, <2>2
<1>13. PICK t : t = SubSeq(s, n + 1, Len(s))
  OBVIOUS
<1>14. /\ t \in Seq(Nat) /\ Len(t) = Len(s) - n
       /\ \A j \in 1..(Len(s) - n) : t[j] = s[n + j]
  <2>1. n <= Len(s)
    BY <1>11
  <2> QED BY <1>13, <2>1, WithoutFirst, Zenon
<1> DEFINE p == [i \in (r + 1)..w |-> o[i] - n]
<1>15. ASSUME NEW i \in (r + 1)..w PROVE p[i] \in Nat /\ p[i] = o[i] - n /\ o[i] \in Nat
  <2>1. i \in r..w /\ r + 1 <= i
    BY <1>2
  <2>2. o[r + 1] <= o[i]
    BY <1>1, <1>3, <2>1, CutRises
  <2>3. o[i] \in Nat
    BY <1>2, <2>1
  <2> QED BY <1>8, <2>2, <2>3
<1>16. p \in [(r + 1)..w -> Nat] /\ p[r + 1] = 0 /\ p[w] = Len(t)
  <2>1. p = [i \in (r + 1)..w |-> p[i]]
    OBVIOUS
  <2>2. w \in (r + 1)..w
    BY <1>2
  <2> HIDE DEF p
  <2>3. p \in [(r + 1)..w -> Nat]
    BY <1>15, <2>1
  <2>4. p[r + 1] = 0
    BY <1>3, <1>8, <1>15
  <2>5. p[w] = Len(t)
    BY <1>2, <1>14, <1>15, <2>2
  <2> QED BY <2>3, <2>4, <2>5
<1> HIDE DEF p
<1>17. ASSUME NEW i \in ((r + 1) + 1)..w
       PROVE  /\ p[i] = p[i - 1] + Len(F[i])
              /\ FieldIn(t, p[i - 1], F[i])
  <2>1. i \in (r + 1)..w /\ i - 1 \in (r + 1)..w /\ i \in r..w /\ i <= w
    BY <1>2
  <2>2. /\ o[i] = o[i - 1] + Len(F[i])
        /\ FieldIn(s, o[i - 1], F[i])
    BY <1>1, <2>1 DEF CutAt
  <2>3. /\ p[i] = o[i] - n /\ p[i - 1] = o[i - 1] - n /\ p[i - 1] \in Nat
        /\ o[i] \in Nat /\ o[i - 1] \in Nat
    BY <1>15, <2>1
  <2>4. Len(F[i]) \in Nat
    BY <2>1 DEF IsField
  <2>5. o[i] <= o[w]
    BY <1>1, <1>3, <2>1, CutRises
  <2>6. p[i] = p[i - 1] + Len(F[i])
    <3>1. PICK a \in Nat, b \in Nat, l \in Nat : a = o[i] /\ b = o[i - 1] /\ l = Len(F[i])
      BY <2>3, <2>4
    <3>2. p[i] = a - n /\ p[i - 1] = b - n /\ a = b + l
      BY <2>2, <2>3, <3>1, Zenon
    <3>3. a - n = (b - n) + l
      BY <3>2
    <3> QED BY <3>1, <3>2, <3>3, Zenon
  <2>7. FieldIn(t, p[i - 1], F[i])
    <3>1. o[i - 1] \in Nat /\ p[i - 1] = o[i - 1] - n /\ n <= o[i - 1]
      BY <2>3
    <3>2. o[i - 1] + Len(F[i]) <= Len(s)
      BY <1>2, <2>2, <2>5
    <3>3. FieldIn(s, o[i - 1], F[i])
      BY <2>2
    <3> QED BY <1>13, <2>4, <3>1, <3>2, <3>3, ShiftedField
  <2> QED BY <2>6, <2>7
<1>18. r + 1 \in Nat /\ r + 1 <= w
  BY <1>2
<1>19. CutAt(t, F, r + 1, w, p)
  BY <1>2, <1>16, <1>17, <1>18 DEF CutAt
<1>20. Cut(t, F, r + 1, w)
  BY <1>19 DEF Cut
<1> QED BY <1>6, <1>8, <1>11, <1>12, <1>13, <1>14, <1>20

-----------------------------------------------------------------------------
\* The script.

\* Seven fields a chunk: from the number of a field to its chunk and back.
LEMMA SevenSplit ==
    ASSUME NEW h \in Nat, NEW n \in Nat, NEW j \in Nat, h < j, j <= h + 7 * n
    PROVE  (j - h - 1) \div 7 + 1 \in 1..n /\ ((j - h - 1) % 7) + 1 \in 1..7
BY SMT

\* ... and from a chunk and its field to the number.
LEMMA SevenJoin ==
    ASSUME NEW h \in Nat, NEW n \in Nat, NEW m \in Nat, 1 <= m, m <= n,
           NEW k \in Nat, 1 <= k, k <= 7
    PROVE  \E j \in Nat :
           /\ j = h + 7 * (m - 1) + k
           /\ j \in 1..(h + 7 * n) /\ ~(j <= h)
           /\ (j - h - 1) \div 7 + 1 = m /\ ((j - h - 1) % 7) + 1 = k
BY SMT

\* The preamble comes first.
LEMMA ScriptHead ==
    ASSUME NEW pre, Len(pre) \in Nat, NEW pl, Len(pl) \in Nat, NEW j \in 1..Len(pre)
    PROVE  ScriptOf(pre, pl)[j] = pre[j]
<1>1. j \in 1..(Len(pre) + 7 * Len(pl)) /\ j <= Len(pre)
  BY SMT
<1> QED BY <1>1, Zenon DEF ScriptOf

\* Then every chunk has its seven fields.
ChunksFrom(F, h, pl) ==
    \A m \in 1..Len(pl), k \in 1..7 : F[h + 7 * (m - 1) + k] = WriteChunk(pl[m])[k]

\* The fields of a chunk follow those of the chunks before it.
LEMMA ScriptChunk ==
    ASSUME NEW pre, Len(pre) \in Nat, NEW pl, Len(pl) \in Nat
    PROVE  ChunksFrom(ScriptOf(pre, pl), Len(pre), pl)
<1> SUFFICES ASSUME NEW m \in 1..Len(pl), NEW k \in 1..7
             PROVE  ScriptOf(pre, pl)[Len(pre) + 7 * (m - 1) + k] = WriteChunk(pl[m])[k]
  BY Zenon DEF ChunksFrom
<1>0. m \in Nat /\ 1 <= m /\ m <= Len(pl) /\ k \in Nat /\ 1 <= k /\ k <= 7
  OBVIOUS
<1>2. PICK j \in Nat :
      /\ j = Len(pre) + 7 * (m - 1) + k
      /\ j \in 1..(Len(pre) + 7 * Len(pl)) /\ ~(j <= Len(pre))
      /\ (j - Len(pre) - 1) \div 7 + 1 = m /\ ((j - Len(pre) - 1) % 7) + 1 = k
  <2>1. PICK h \in Nat, n \in Nat, a \in Nat, b \in Nat :
           h = Len(pre) /\ n = Len(pl) /\ a = m /\ b = k
    BY <1>0
  <2>2. 1 <= a /\ a <= n /\ 1 <= b /\ b <= 7
    BY <1>0, <2>1
  <2>3. \E j \in Nat :
        /\ j = h + 7 * (a - 1) + b
        /\ j \in 1..(h + 7 * n) /\ ~(j <= h)
        /\ (j - h - 1) \div 7 + 1 = a /\ ((j - h - 1) % 7) + 1 = b
    BY <2>2, SevenJoin
  <2> QED BY <2>1, <2>3, Zenon
<1>3. ScriptOf(pre, pl)[j]
         = WriteChunk(pl[(j - Len(pre) - 1) \div 7 + 1])[((j - Len(pre) - 1) % 7) + 1]
  BY <1>2, Zenon DEF ScriptOf
<1> QED BY <1>2, <1>3, Zenon

\* Field j after h fields of the preamble: of which chunk, and which of its fields.
ChunkNo(j, h) == (j - h - 1) \div 7 + 1
FieldNo(j, h) == ((j - h - 1) % 7) + 1

\* Every field after the preamble is one of some chunk.
LEMMA ScriptPlace ==
    ASSUME NEW pre, Len(pre) \in Nat, NEW pl, Len(pl) \in Nat,
           NEW j \in 1..(Len(pre) + 7 * Len(pl)), ~(j <= Len(pre))
    PROVE  /\ ChunkNo(j, Len(pre)) \in 1..Len(pl) /\ FieldNo(j, Len(pre)) \in 1..7
           /\ ScriptOf(pre, pl)[j]
                 = WriteChunk(pl[ChunkNo(j, Len(pre))])[FieldNo(j, Len(pre))]
<1>1. j \in Nat /\ Len(pre) < j /\ j <= Len(pre) + 7 * Len(pl)
  BY SMT
<1>2. ChunkNo(j, Len(pre)) \in 1..Len(pl) /\ FieldNo(j, Len(pre)) \in 1..7
  BY <1>1, SevenSplit, Zenon DEF ChunkNo, FieldNo
<1> QED BY <1>2, Zenon DEF ScriptOf, ChunkNo, FieldNo

\* All fields are nonempty sequences of bytes.
LEMMA ScriptFields ==
    ASSUME NEW pre, Len(pre) \in Nat, \A j \in 1..Len(pre) : IsField(pre[j]),
           NEW pl, Len(pl) \in Nat, \A m \in 1..Len(pl) : FitsWire(pl[m])
    PROVE  \A j \in 1..(Len(pre) + 7 * Len(pl)) : IsField(ScriptOf(pre, pl)[j])
<1> TAKE j \in 1..(Len(pre) + 7 * Len(pl))
<1>1. CASE j <= Len(pre)
  <2>1. j \in 1..Len(pre)
    BY <1>1, SMT
  <2>2. ScriptOf(pre, pl)[j] = pre[j]
    BY <2>1, ScriptHead
  <2> QED BY <2>1, <2>2, Zenon
<1>2. CASE ~(j <= Len(pre))
  <2>1. PICK m, k : m = ChunkNo(j, Len(pre)) /\ k = FieldNo(j, Len(pre))
    OBVIOUS
  <2>2. m \in 1..Len(pl) /\ k \in 1..7
    BY <1>2, <2>1, ScriptPlace
  <2>3. ScriptOf(pre, pl)[j] = WriteChunk(pl[m])[k]
    BY <1>2, <2>1, ScriptPlace
  <2>4. FitsWire(pl[m])
    BY <2>2
  <2>5. IsField(WriteChunk(pl[m])[k])
    BY <2>2, <2>4, ChunkFields
  <2> QED BY <2>3, <2>5, Zenon
<1> QED BY <1>1, <1>2

\* Placing another chunk leaves the fields before it as they are.
LEMMA ScriptGrows ==
    ASSUME NEW pre, Len(pre) \in Nat, NEW S, NEW pl \in Seq(S), NEW c \in S,
           NEW j \in 1..(Len(pre) + 7 * Len(pl))
    PROVE  ScriptOf(pre, Append(pl, c))[j] = ScriptOf(pre, pl)[j]
<1>1. PICK q : q = Append(pl, c)
  OBVIOUS
<1>2. /\ Len(pl) \in Nat /\ Len(q) = Len(pl) + 1 /\ Len(q) \in Nat
      /\ \A i \in 1..Len(pl) : q[i] = pl[i]
  BY <1>1
<1>3. CASE j <= Len(pre)
  <2>1. j \in 1..Len(pre)
    BY <1>3, SMT
  <2> QED BY <1>1, <1>2, <2>1, ScriptHead
<1>4. CASE ~(j <= Len(pre))
  <2>1. PICK m, k : m = ChunkNo(j, Len(pre)) /\ k = FieldNo(j, Len(pre))
    OBVIOUS
  <2>2. j \in 1..(Len(pre) + 7 * Len(q))
    BY <1>2, SMT
  <2>3. /\ ScriptOf(pre, pl)[j] = WriteChunk(pl[m])[k] /\ m \in 1..Len(pl)
        /\ ScriptOf(pre, q)[j] = WriteChunk(q[m])[k]
    BY <1>2, <1>4, <2>1, <2>2, ScriptPlace, Zenon
  <2> QED BY <1>1, <1>2, <2>3, Zenon
<1> QED BY <1>3, <1>4

-----------------------------------------------------------------------------
\* The readers' lists of fields.

Distinct(names) ==
    \A i, j \in 1..Len(names) : names[i] = names[j] => i = j

\* No field is listed twice.
LEMMA Names ==
    /\ Len(ReadStreamKind) = 1 /\ Distinct(ReadStreamKind)
    /\ Len(ReadControlHeader) = 6 /\ Distinct(ReadControlHeader)
    /\ Len(ReadPathHello) = 2 /\ Distinct(ReadPathHello)
    /\ Len(ReadChunk) = 7 /\ Distinct(ReadChunk)
<1>1. Len(ReadStreamKind) = 1 /\ Distinct(ReadStreamKind)
  BY DEF ReadStreamKind, Distinct
<1>2. Len(ReadControlHeader) = 6 /\ Distinct(ReadControlHeader)
  BY DEF ReadControlHeader, Distinct
<1>3. Len(ReadPathHello) = 2 /\ Distinct(ReadPathHello)
  BY DEF ReadPathHello, Distinct
<1>4. Len(ReadChunk) = 7 /\ Distinct(ReadChunk)
  BY DEF ReadChunk, Distinct
<1> QED BY <1>1, <1>2, <1>3, <1>4

\* What is being read, and its list.
LEMMA FieldsRead ==
    /\ reading = "kind" => Fields = ReadStreamKind
    /\ reading = "control" => Fields = ReadControlHeader
    /\ reading = "hello" => Fields = ReadPathHello
    /\ reading = "chunk" => Fields = ReadChunk
<1>1. /\ "kind" # "control" /\ "kind" # "hello" /\ "kind" # "chunk"
      /\ "control" # "hello" /\ "control" # "chunk" /\ "hello" # "chunk"
  OBVIOUS
<1>2. reading = "kind" => Fields = ReadStreamKind
  BY <1>1, Zenon DEF Fields
<1>3. reading = "control" => Fields = ReadControlHeader
  BY <1>1, Zenon DEF Fields
<1>4. reading = "hello" => Fields = ReadPathHello
  BY <1>1, Zenon DEF Fields
<1>5. reading = "chunk" => Fields = ReadChunk
  BY <1>1, Zenon DEF Fields
<1> QED BY <1>2, <1>3, <1>4, <1>5

\* The number of fields read is how many names a partial message has.
LEMMA DecodedCount ==
    ASSUME NEW names, Len(names) \in Nat, Distinct(names),
           NEW n \in 0..Len(names), NEW g, NEW F, NEW from, Decoded(g, names, F, from, n)
    PROVE  Cardinality(DOMAIN g) = n
<1> DEFINE b == [i \in 1..n |-> names[i]]
           T == {names[i] : i \in 1..n}
<1>1. DOMAIN g = T
  BY DEF Decoded
<1>2. \A i \in 1..n : i \in 1..Len(names)
  OBVIOUS
<1>3. ASSUME NEW i \in 1..n, NEW j \in 1..n, b[i] = b[j] PROVE i = j
  BY <1>2, <1>3, Zenon DEF Distinct
<1>4. b \in Bijection(1..n, T)
  BY <1>3, Zenon DEF Bijection, Injection, Surjection, IsInjective
<1>5. ExistsBijection(1..n, T)
  BY <1>4 DEF ExistsBijection
<1>6. IsFiniteSet(1..n) /\ Cardinality(1..n) = n
  BY RunOfNumbers, FS_Interval
<1> HIDE DEF T
<1>7. Cardinality(T) = Cardinality(1..n)
  BY <1>5, <1>6, FS_Bijection
<1> QED BY <1>1, <1>6, <1>7

\* Only the fields read matter.
LEMMA DecodedSame ==
    ASSUME NEW g, NEW names, NEW F, NEW G, NEW from, NEW n,
           Decoded(g, names, F, from, n), \A i \in 1..n : F[from + i] = G[from + i]
    PROVE  Decoded(g, names, G, from, n)
<1>1. /\ DOMAIN g = {names[i] : i \in 1..n} /\ g = [f \in DOMAIN g |-> g[f]]
      /\ \A i \in 1..n : g[names[i]] = Decode(names[i], F[from + i])
  BY DEF Decoded
<1>2. ASSUME NEW i \in 1..n PROVE g[names[i]] = Decode(names[i], G[from + i])
  BY <1>1, Zenon
<1> QED BY <1>1, <1>2, Zenon DEF Decoded

\* A partial message and one field more.
Extended(g, name, bytes) ==
    [f \in DOMAIN g \cup {name} |-> IF f = name THEN Decode(f, bytes) ELSE g[f]]

\* Reading one field more.
LEMMA DecodedNext ==
    ASSUME NEW names, Len(names) \in Nat, Distinct(names),
           NEW n \in Nat, n < Len(names),
           NEW g, NEW F, NEW from \in Nat, Decoded(g, names, F, from, n)
    PROVE  Decoded(Extended(g, names[n + 1], F[from + n + 1]), names, F, from, n + 1)
<1>a. PICK name, bytes, now :
         /\ name = names[n + 1] /\ bytes = F[from + n + 1]
         /\ now = [f \in DOMAIN g \cup {name} |->
                     IF f = name THEN Decode(f, bytes) ELSE g[f]]
  OBVIOUS
<1>1. /\ DOMAIN g = {names[i] : i \in 1..n}
      /\ \A i \in 1..n : g[names[i]] = Decode(names[i], F[from + i])
  BY DEF Decoded
<1>2. \A i \in 1..(n + 1) : i \in 1..n \/ i = n + 1
  OBVIOUS
<1>3. n + 1 \in 1..(n + 1) /\ \A i \in 1..n : i \in 1..(n + 1)
  OBVIOUS
<1>4. DOMAIN now = {names[i] : i \in 1..(n + 1)}
  <2>1. DOMAIN now = DOMAIN g \cup {name}
    BY <1>a, Zenon
  <2>2. {names[i] : i \in 1..(n + 1)} = {names[i] : i \in 1..n} \cup {names[n + 1]}
    BY <1>2, <1>3, Zenon
  <2> QED BY <1>1, <1>a, <2>1, <2>2, Zenon
<1>5. now[name] = Decode(name, bytes)
  BY <1>a, Zenon
<1>6. ASSUME NEW i \in 1..n PROVE now[names[i]] = g[names[i]]
  <2>1. i \in 1..Len(names) /\ n + 1 \in 1..Len(names) /\ i # n + 1
    OBVIOUS
  <2>2. names[i] # name
    BY <1>a, <2>1, Zenon DEF Distinct
  <2>3. names[i] \in DOMAIN g
    BY <1>1, Zenon
  <2> QED BY <1>a, <2>2, <2>3, Zenon
<1>7. from + (n + 1) = from + n + 1
  OBVIOUS
<1>8. ASSUME NEW i \in 1..(n + 1) PROVE now[names[i]] = Decode(names[i], F[from + i])
  <2>1. CASE i \in 1..n
    BY <1>1, <1>6, <2>1, Zenon
  <2>2. CASE i = n + 1
    BY <1>5, <1>7, <1>a, <2>2, Zenon
  <2> QED BY <1>2, <2>1, <2>2
<1>9. now = [f \in DOMAIN now |-> now[f]]
  BY <1>a, Zenon
<1>10. Decoded(now, names, F, from, n + 1)
  BY <1>4, <1>8, <1>9, Zenon DEF Decoded
<1> QED BY <1>10, <1>a, Zenon DEF Extended

\* Nothing read yet.
LEMMA DecodedNothing ==
    ASSUME NEW names, NEW F, NEW from
    PROVE  Decoded(<< >>, names, F, from, 0)
BY DEF Decoded

-----------------------------------------------------------------------------
\* Every field is read with the width it was written with.

\* The width of a frame's next field (chunk.go:94-130).
LEMMA ChunkWidths ==
    ASSUME NEW c, FitsWire(c), NEW F, NEW from,
           \A k \in 1..7 : F[from + k] = WriteChunk(c)[k],
           NEW n \in 0..6, NEW g, Decoded(g, ReadChunk, F, from, n)
    PROVE  Width(ReadChunk[n + 1], g) = Len(F[from + (n + 1)])
<1>1. PICK W : W = WriteChunk(c)
  OBVIOUS
<1>2. /\ Len(W[1]) = W64 /\ Len(W[2]) = W64 /\ Len(W[3]) = W64 /\ Len(W[4]) = W64
      /\ Len(W[5]) = W32 /\ Value(W[5]) = Len(c.data) /\ Len(W[6]) = W32 /\ W[7] = c.data
  BY <1>1, ChunkFields
<1>3. n + 1 \in 1..7
  OBVIOUS
<1>4. F[from + (n + 1)] = W[n + 1]
  BY <1>1, <1>3
<1>5. /\ ReadChunk[1] = "seq" /\ ReadChunk[2] = "offset" /\ ReadChunk[3] = "burstID"
      /\ ReadChunk[4] = "burstBytes" /\ ReadChunk[5] = "len" /\ ReadChunk[6] = "checksum"
      /\ ReadChunk[7] = "data"
  BY DEF ReadChunk
<1>6. CASE n = 6
  <2>1. 5 \in 1..n /\ 5 \in 1..7 /\ n + 1 = 7
    BY <1>6
  <2>2. g[ReadChunk[5]] = Decode(ReadChunk[5], F[from + 5])
    BY <2>1, Zenon DEF Decoded
  <2>3. F[from + 5] = W[5]
    BY <1>1, <2>1
  <2>4. "len" \notin {"scheduler", "data"}
    OBVIOUS
  <2>5. g["len"] = Value(W[5])
    BY <1>5, <2>2, <2>3, <2>4, Zenon DEF Decode
  <2>6. g.len = Len(c.data)
    BY <1>2, <2>5
  <2> QED BY <1>2, <1>4, <1>5, <2>1, <2>6, Widths
<1>7. CASE n # 6
  <2>1. n + 1 = 1 \/ n + 1 = 2 \/ n + 1 = 3 \/ n + 1 = 4 \/ n + 1 = 5 \/ n + 1 = 6
    BY <1>7
  <2>2. /\ Width(ReadChunk[1], g) = Len(W[1]) /\ Width(ReadChunk[2], g) = Len(W[2])
        /\ Width(ReadChunk[3], g) = Len(W[3]) /\ Width(ReadChunk[4], g) = Len(W[4])
        /\ Width(ReadChunk[5], g) = Len(W[5]) /\ Width(ReadChunk[6], g) = Len(W[6])
    BY <1>2, <1>5, Widths
  <2>3. Width(ReadChunk[n + 1], g) = Len(W[n + 1])
    BY <2>1, <2>2
  <2> QED BY <1>4, <2>3, Zenon
<1> QED BY <1>6, <1>7

\* The width of a control header's next field (session.go:62-84).
LEMMA ControlWidths ==
    ASSUME opt \in Transfers, pathIndex \in PathIndexes, NEW F,
           \A k \in 1..7 : F[k] = WriteControlHeader(Control)[k],
           NEW n \in 0..5, NEW g, Decoded(g, ReadControlHeader, F, 1, n)
    PROVE  Width(ReadControlHeader[n + 1], g) = Len(F[n + 2])
<1>1. PICK W : W = WriteControlHeader(Control)
  OBVIOUS
<1>2. /\ Len(W[2]) = W128 /\ Len(W[3]) = W64 /\ Len(W[4]) = W32 /\ Len(W[5]) = W32
      /\ Len(W[6]) = W16 /\ Value(W[6]) = Len(Control.scheduler)
      /\ W[7] = Control.scheduler
  BY <1>1, ControlFields
<1>3. n + 2 \in 1..7
  OBVIOUS
<1>4. F[n + 2] = W[n + 2]
  BY <1>1, <1>3
<1>5. /\ ReadControlHeader[1] = "sessionID" /\ ReadControlHeader[2] = "totalSize"
      /\ ReadControlHeader[3] = "chunkSize" /\ ReadControlHeader[4] = "numPaths"
      /\ ReadControlHeader[5] = "schedLen" /\ ReadControlHeader[6] = "scheduler"
  BY DEF ReadControlHeader
<1>6. CASE n = 5
  <2>1. 5 \in 1..n /\ 6 \in 1..7 /\ n + 1 = 6 /\ 1 + 5 = 6 /\ n + 2 = 7
    BY <1>6
  <2>2. g[ReadControlHeader[5]] = Decode(ReadControlHeader[5], F[1 + 5])
    BY <2>1, Zenon DEF Decoded
  <2>3. F[6] = W[6]
    BY <1>1, <2>1
  <2>4. "schedLen" \notin {"scheduler", "data"}
    OBVIOUS
  <2>5. g["schedLen"] = Value(W[6])
    BY <1>5, <2>1, <2>2, <2>3, <2>4, Zenon DEF Decode
  <2>6. g.schedLen = Len(Control.scheduler)
    BY <1>2, <2>5
  <2> QED BY <1>2, <1>4, <1>5, <2>1, <2>6, Widths
<1>7. CASE n # 5
  <2>1. \/ n + 1 = 1 /\ n + 2 = 2
        \/ n + 1 = 2 /\ n + 2 = 3
        \/ n + 1 = 3 /\ n + 2 = 4
        \/ n + 1 = 4 /\ n + 2 = 5
        \/ n + 1 = 5 /\ n + 2 = 6
    BY <1>7
  <2>2. /\ Width(ReadControlHeader[1], g) = Len(W[2])
        /\ Width(ReadControlHeader[2], g) = Len(W[3])
        /\ Width(ReadControlHeader[3], g) = Len(W[4])
        /\ Width(ReadControlHeader[4], g) = Len(W[5])
        /\ Width(ReadControlHeader[5], g) = Len(W[6])
    BY <1>2, <1>5, Widths
  <2>3. Width(ReadControlHeader[n + 1], g) = Len(W[n + 2])
    BY <2>1, <2>2
  <2> QED BY <1>4, <2>3, Zenon
<1> QED BY <1>6, <1>7

\* The width of a hello's next field (session.go:104-120).
LEMMA HelloWidths ==
    ASSUME opt \in Transfers, pathIndex \in PathIndexes, NEW F,
           \A k \in 1..3 : F[k] = WritePathHello(Hello)[k],
           NEW n \in 0..1, NEW g
    PROVE  Width(ReadPathHello[n + 1], g) = Len(F[n + 2])
<1>1. PICK W : W = WritePathHello(Hello)
  OBVIOUS
<1>2. Len(W[2]) = W128 /\ Len(W[3]) = W32
  BY <1>1, HelloFields
<1>3. n + 2 \in 1..3
  OBVIOUS
<1>4. F[n + 2] = W[n + 2]
  BY <1>1, <1>3
<1>5. ReadPathHello[1] = "sessionID" /\ ReadPathHello[2] = "pathIndex"
  BY DEF ReadPathHello
<1>6. (n + 1 = 1 /\ n + 2 = 2) \/ (n + 1 = 2 /\ n + 2 = 3)
  OBVIOUS
<1>7. Width(ReadPathHello[n + 1], g) = Len(W[n + 2])
  BY <1>2, <1>5, <1>6, Widths, Zenon
<1> QED BY <1>4, <1>7, Zenon

-----------------------------------------------------------------------------
\* The client: Split's loop.

\* A uint32 is what its width holds.
LEMMA Uint32Fits ==
    ASSUME NEW v \in Nat
    PROVE  Uint32(v) \in 0..(Room[W32] - 1) /\ Uint32(v) \in Nat /\ Room[W32] \in Nat \ {0}
<1>1. PICK r \in Nat \ {0} : r = Room[W32]
  BY RoomFacts, WidthAssumption
<1>2. v % r \in 0..(r - 1)
  BY SMT
<1> QED BY <1>1, <1>2 DEF Uint32

\* The sizes Split works with fit their types.
LEMMA SplitSizes ==
    ASSUME opt \in Transfers, burst \in 1..Len(opt.sizes)
    PROVE  /\ Size \in 0..(Room[W64] - 1) /\ SplitSize \in 0..(Room[W32] - 1)
           /\ BurstID \in 0..(Room[W64] - 1)
           /\ Room[W64] \in Nat \ {0} /\ Room[W32] \in Nat \ {0}
<1>1. /\ opt.chunkSize \in Nat /\ opt.sizes \in Seq(0..(Room[W64] - 1))
      /\ Len(opt.sizes) \in 1..(Room[W64] - 1)
  BY PathStreamAssumption
<1>2. Room[W64] \in Nat \ {0} /\ Room[W32] \in Nat \ {0}
  BY RoomFacts, WidthAssumption
<1>3. Size \in 0..(Room[W64] - 1)
  <2>1. PICK t, B : t = opt.sizes /\ B = 0..(Room[W64] - 1)
    OBVIOUS
  <2>2. t \in Seq(B) /\ burst \in 1..Len(t)
    BY <1>1, <2>1
  <2>3. t[burst] \in B
    BY <2>2
  <2> QED BY <2>1, <2>3 DEF Size
<1>4. BurstID \in 0..(Room[W64] - 1)
  <2>1. PICK r \in Nat : r = Room[W64]
    BY <1>2
  <2>2. burst \in 0..(r - 1) /\ 0 \in 0..(r - 1)
    BY <1>1, <2>1
  <2> QED BY <2>1, <2>2 DEF BurstID
<1>6. Size \in Nat
  BY <1>2, <1>3
<1>7. SplitSize \in 0..(Room[W32] - 1)
  BY <1>1, <1>6, Uint32Fits DEF SplitSize
<1> QED BY <1>2, <1>3, <1>4, <1>7

\* The chunk of Split's next iteration (chunk.go:57-66).
LEMMA NextChunk ==
    ASSUME ClientInv, offset < Size,
           NEW end, end = Min({offset + SplitSize, Size}),
           NEW c,
           c = [seq |-> Len(chunks), offset |-> offset, burstID |-> BurstID,
                burstBytes |-> Size,
                data |-> [i \in 1..(end - offset) |-> Payload(burst, offset + i)]]
    PROVE  /\ ChunkMade(c, Len(chunks) + 1, SplitSize, Size, BurstID)
           /\ offset + SplitSize = (Len(chunks) + 1) * SplitSize
<1>a. PICK n \in Nat, S \in Nat, size \in Nat, bst \in Nat :
         n = Len(chunks) /\ S = SplitSize /\ size = Size /\ bst = burst
  <2>1. PICK T : chunks \in Seq(T)
    BY DEF ClientInv
  <2>2. opt \in Transfers /\ burst \in 1..Len(opt.sizes)
    BY DEF ClientInv
  <2>3. Len(chunks) \in Nat /\ SplitSize \in Nat /\ Size \in Nat /\ burst \in Nat
    BY <2>1, <2>2, SplitSizes
  <2> QED BY <2>3
<1>b. PICK id, off : id = BurstID /\ off = offset
  OBVIOUS
<1>c. off = n * S
  <2>1. offset = Len(chunks) * SplitSize
    BY DEF ClientInv
  <2> QED BY <1>a, <1>b, <2>1, Zenon
<1>d. off < size /\ end = Min({off + S, size})
  BY <1>a, <1>b, Zenon
<1>e. c = [seq |-> n, offset |-> off, burstID |-> id, burstBytes |-> size,
           data |-> [i \in 1..(end - off) |-> Payload(bst, off + i)]]
  BY <1>a, <1>b, Zenon
<1>1. off \in Nat /\ off + S = (n + 1) * S /\ (n + 1) - 1 = n
  BY <1>c, SMT
<1>2. end \in {off + S, size}
  <2>1. off + S \in Int /\ size \in Int
    BY <1>1
  <2> QED BY <1>d, <2>1, MinOfTwo
<1>3. PICK l \in Nat : l = end - off
  <2>1. end - off \in Nat
    BY <1>1, <1>2, <1>d
  <2> QED BY <2>1
<1>4. ASSUME NEW i \in 1..l PROVE Payload(bst, off + i) \in 0..(Base - 1)
  <2>1. PICK x \in Nat : x = bst + (off + i)
    <3>1. bst + (off + i) \in Nat
      BY <1>1
    <3> QED BY <3>1
  <2>2. x % Base \in 0..(Base - 1)
    BY WidthAssumption, SMT
  <2> QED BY <2>1, <2>2 DEF Payload
<1>5. PICK d : d = [i \in 1..l |-> Payload(bst, off + i)]
  OBVIOUS
<1>6. PICK B : B = 0..(Base - 1)
  OBVIOUS
<1>7. d \in [1..l -> B]
  BY <1>4, <1>5, <1>6, Zenon
<1>8. d \in Seq(B) /\ Len(d) = l
  BY <1>7
<1>9. c.seq = n /\ c.offset = off /\ c.burstID = id /\ c.burstBytes = size /\ c.data = d
  <2>1. [i \in 1..(end - off) |-> Payload(bst, off + i)] = d
    BY <1>3, <1>5, Zenon
  <2>2. c = [seq |-> n, offset |-> off, burstID |-> id, burstBytes |-> size, data |-> d]
    BY <1>e, <2>1, Zenon
  <2>3. PICK e : e = [seq |-> n, offset |-> off, burstID |-> id, burstBytes |-> size, data |-> d]
    OBVIOUS
  <2>4. e.seq = n /\ e.offset = off /\ e.burstID = id /\ e.burstBytes = size /\ e.data = d
    BY <2>3, SMT
  <2>5. e = c
    BY <2>2, <2>3, Zenon
  <2> QED BY <2>4, <2>5, Zenon
<1>10. ChunkMade(c, n + 1, S, size, id)
  BY <1>1, <1>3, <1>6, <1>8, <1>9, <1>c, <1>d DEF ChunkMade
<1> QED BY <1>1, <1>10, <1>a, <1>b, Zenon

\* A chunk placed by sendChunks fits the fields of a frame: Split has ended,
\* so its pieces are not empty and their numbers stay below the burst's size.
LEMMA PlacedFits ==
    ASSUME ClientInv, cpc = "send", NEW i \in 1..Len(chunks)
    PROVE  FitsWire(chunks[i])
<1>1. PICK T : chunks \in Seq(T)
  BY DEF ClientInv
<1>2. opt \in Transfers /\ burst \in 1..Len(opt.sizes)
  BY DEF ClientInv
<1>3. /\ Size \in 0..(Room[W64] - 1) /\ SplitSize \in 0..(Room[W32] - 1)
      /\ BurstID \in 0..(Room[W64] - 1)
      /\ Room[W64] \in Nat \ {0} /\ Room[W32] \in Nat \ {0}
  BY <1>2, SplitSizes
<1>4. PICK c, S, size, id, n :
         /\ c = chunks[i] /\ S = SplitSize /\ size = Size /\ id = BurstID
         /\ n = Len(chunks)
  OBVIOUS
<1>5. ChunkMade(c, i, S, size, id) /\ n * S >= size
  BY <1>4 DEF ClientInv
<1>6. PICK r \in Nat, q \in Nat : r = Room[W64] /\ q = Room[W32]
  BY <1>3
<1>7. /\ size \in Nat /\ size < r /\ S \in Nat /\ S < q /\ id \in 0..(r - 1)
      /\ n \in Nat /\ i \in Nat /\ 1 <= i
  BY <1>1, <1>3, <1>4, <1>6
<1>8. /\ c.seq = i - 1 /\ c.offset = (i - 1) * S /\ c.offset < size
      /\ c.burstID = id /\ c.burstBytes = size /\ c.data \in Seq(0..(Base - 1))
      /\ Len(c.data) = Min({c.offset + S, size}) - c.offset
  BY <1>5, Zenon DEF ChunkMade
<1>9. PICK j \in Nat : j = i - 1
  BY <1>7
<1>10. j * S \in Nat /\ j * S < size
  BY <1>7, <1>8, <1>9, SMT
<1>11. S # 0
  BY <1>5, <1>7, <1>10, SMT
<1>12. j <= j * S
  BY <1>7, <1>11, ProductOrder
<1>13. PICK x \in Nat : x = j * S
  BY <1>10
<1>14. c.seq = j /\ c.offset = x /\ x < size /\ j <= x
  BY <1>8, <1>9, <1>10, <1>12, <1>13
<1>15. PICK y : y = Min({x + S, size})
  OBVIOUS
<1>16. y \in {x + S, size} /\ y <= x + S
  <2>1. x + S \in Int /\ size \in Int
    BY <1>7
  <2> QED BY <1>15, <2>1, MinOfTwo
<1>17. y - x \in 1..(q - 1)
  BY <1>7, <1>11, <1>14, <1>16
<1>18. Len(c.data) = y - x
  BY <1>8, <1>14, <1>15, Zenon
<1>19. /\ c.seq \in 0..(r - 1) /\ c.offset \in 0..(r - 1) /\ c.burstBytes \in 0..(r - 1)
       /\ c.burstID \in 0..(r - 1)
  BY <1>7, <1>8, <1>14
<1> QED BY <1>4, <1>6, <1>8, <1>17, <1>18, <1>19, Zenon DEF FitsWire

\* Steps of others, and of the stream, leave the client's loop alone.
LEMMA ClientUntouched ==
    ASSUME ClientInv, UNCHANGED <<opt, pathIndex, cpc, burst, offset, chunks, next, fin>>
    PROVE  ClientInv'
BY DEF ClientInv, SplitSize, Size, BurstID

\* Every step keeps the client's part of the invariant.
LEMMA ClientKept ==
    ASSUME ClientInv, [Next]_pvars
    PROVE  ClientInv'
<1> DEFINE same == UNCHANGED <<opt, burst>>
<1>1. ASSUME same PROVE SplitSize' = SplitSize /\ Size' = Size /\ BurstID' = BurstID
  BY <1>1 DEF SplitSize, Size, BurstID
<1>2. PICK T : chunks \in Seq(T)
  BY DEF ClientInv
<1>3. Len(chunks) \in Nat
  BY <1>2
<1>4. opt \in Transfers /\ burst \in 1..Len(opt.sizes)
  BY DEF ClientInv
<1>5. Size \in Nat /\ SplitSize \in Nat /\ burst \in Nat
  BY <1>4, SplitSizes
<1>6. CASE SplitStep
  <2>1. PICK end : end = Min({offset + SplitSize, Size})
    OBVIOUS
  <2>2. PICK c :
           c = [seq |-> Len(chunks), offset |-> offset, burstID |-> BurstID,
                burstBytes |-> Size,
                data |-> [i \in 1..(end - offset) |-> Payload(burst, offset + i)]]
    OBVIOUS
  <2>3. /\ chunks' = Append(chunks, c) /\ offset' = offset + SplitSize
        /\ offset < Size /\ cpc = "split"
        /\ UNCHANGED <<opt, pathIndex, cpc, burst, next, fin>>
    BY <1>6, <2>1, <2>2 DEF SplitStep, tvars
  <2>4. offset = Len(chunks) * SplitSize
    BY DEF ClientInv
  <2>5. /\ ChunkMade(c, Len(chunks) + 1, SplitSize, Size, BurstID)
        /\ offset + SplitSize = (Len(chunks) + 1) * SplitSize
    BY <2>1, <2>2, <2>3, NextChunk, Zenon
  <2>6. chunks' \in Seq(T \cup {c}) /\ Len(chunks') = Len(chunks) + 1
    BY <1>2, <2>3
  <2>7. ASSUME NEW i \in 1..Len(chunks')
        PROVE  ChunkMade(chunks'[i], i, SplitSize, Size, BurstID)
    <3>1. CASE i \in 1..Len(chunks)
      <4>1. chunks'[i] = chunks[i]
        BY <1>2, <2>3, <3>1
      <4>2. ChunkMade(chunks[i], i, SplitSize, Size, BurstID)
        BY <3>1 DEF ClientInv
      <4> QED BY <4>1, <4>2, Zenon
    <3>2. CASE i = Len(chunks) + 1
      <4>1. chunks'[i] = c
        BY <1>2, <2>3, <3>2
      <4> QED BY <2>5, <3>2, <4>1, Zenon
    <3> QED BY <1>3, <2>6, <3>1, <3>2
  <2>8. offset' = Len(chunks') * SplitSize
    BY <2>3, <2>5, <2>6, Zenon
  <2>9. next' \in 0..Len(chunks')
    <3>1. next \in 0..Len(chunks)
      BY DEF ClientInv
    <3> QED BY <1>3, <2>3, <2>6, <3>1
  <2>10. /\ opt' \in Transfers /\ pathIndex' \in PathIndexes
         /\ burst' \in 1..Len(opt'.sizes) /\ cpc' = "split" /\ fin' = fin
         /\ fin => cpc = "closed"
    BY <2>3 DEF ClientInv
  <2>11. SplitSize' = SplitSize /\ Size' = Size /\ BurstID' = BurstID
    BY <1>1, <2>3
  <2>12. \A i \in 1..Len(chunks') : ChunkMade(chunks'[i], i, SplitSize', Size', BurstID')
    BY <2>7, <2>11, Zenon
  <2>13. offset' = Len(chunks') * SplitSize'
    BY <2>8, <2>11, Zenon
  <2>14. \E S : chunks' \in Seq(S)
    BY <2>6
  <2> QED BY <2>3, <2>9, <2>10, <2>12, <2>13, <2>14 DEF ClientInv
<1>7. CASE SplitRunsOut \/ SplitDone
  <2>1. /\ UNCHANGED <<opt, pathIndex, burst, offset, chunks, next, fin>>
        /\ cpc = "split" /\ (cpc' = "oom" \/ (cpc' = "send" /\ offset >= Size))
    BY <1>7 DEF SplitRunsOut, SplitDone, tvars
  <2>2. SplitSize' = SplitSize /\ Size' = Size /\ BurstID' = BurstID
    BY <1>1, <2>1
  <2> QED BY <2>1, <2>2 DEF ClientInv
<1>8. CASE WriteField
  BY <1>8, ClientUntouched DEF WriteField
<1>9. CASE NextBurst
  <2>1. /\ UNCHANGED <<opt, pathIndex, fin>> /\ burst' = burst + 1
        /\ burst < Len(opt.sizes)
        /\ cpc = "send" /\ cpc' = "split" /\ offset' = 0 /\ chunks' = << >> /\ next' = 0
    BY <1>9 DEF NextBurst, tvars
  <2>2. Len(opt.sizes) \in Nat
    BY <1>4, PathStreamAssumption
  <2>3. opt' \in Transfers /\ burst' \in 1..Len(opt'.sizes)
    BY <1>4, <2>1, <2>2
  <2>4. SplitSize' \in Nat
    <3>1. PICK t, B : t = opt.sizes /\ B = 0..(Room[W64] - 1)
      OBVIOUS
    <3>2. t \in Seq(B) /\ burst + 1 \in 1..Len(t) /\ opt.chunkSize \in Nat
      BY <1>4, <2>1, <2>3, <3>1, PathStreamAssumption
    <3>3. B \subseteq Nat
      BY <3>1, RoomFacts, WidthAssumption
    <3>4. t[burst + 1] \in Nat
      <4>1. t[burst + 1] \in B
        BY <3>2
      <4> QED BY <3>3, <4>1, Zenon
    <3>5. Size' = t[burst + 1]
      BY <2>1, <3>1 DEF Size
    <3> QED BY <2>1, <3>2, <3>4, <3>5, Uint32Fits DEF SplitSize
  <2>5. Len(chunks') = 0 /\ chunks' \in Seq({}) /\ offset' = Len(chunks') * SplitSize'
    <3>1. PICK z \in Nat : z = SplitSize'
      BY <2>4
    <3>2. Len(chunks') = 0 /\ chunks' \in Seq({}) /\ 0 * z = 0
      BY <2>1
    <3> QED BY <2>1, <3>1, <3>2, Zenon
  <2>6. next' \in 0..Len(chunks') /\ \A i : i \notin 1..Len(chunks')
    BY <2>1, <2>5
  <2>7. fin => cpc = "closed"
    BY DEF ClientInv
  <2>8. pathIndex' \in PathIndexes
    BY <2>1 DEF ClientInv
  <2> QED BY <2>1, <2>3, <2>5, <2>6, <2>7, <2>8 DEF ClientInv
<1>10. CASE CloseStream
  <2>1. /\ UNCHANGED <<opt, pathIndex, burst, offset, chunks, next>>
        /\ cpc = "send" /\ next = Len(chunks) /\ burst = Len(opt.sizes)
        /\ cpc' = "closed"
    BY <1>10 DEF CloseStream
  <2>2. SplitSize' = SplitSize /\ Size' = Size /\ BurstID' = BurstID
    BY <1>1, <2>1
  <2> QED BY <2>1, <2>2 DEF ClientInv
<1>11. ASSUME NEW here \in BOOLEAN, PlaceChunk(here) PROVE ClientInv'
  <2>1. /\ UNCHANGED <<opt, pathIndex, cpc, burst, offset, chunks, fin>>
        /\ cpc = "send" /\ next < Len(chunks) /\ next' = next + 1
    BY <1>11 DEF PlaceChunk, tvars
  <2>2. SplitSize' = SplitSize /\ Size' = Size /\ BurstID' = BurstID
    BY <1>1, <2>1
  <2>3. next' \in 0..Len(chunks')
    <3>1. next \in 0..Len(chunks)
      BY DEF ClientInv
    <3> QED BY <1>3, <2>1, <3>1
  <2> QED BY <2>1, <2>2, <2>3 DEF ClientInv
<1>12. CASE (ReadField \/ ReadEnds) /\ UNCHANGED wvars
  <2>1. UNCHANGED fin
    BY <1>12 DEF ReadField, ReadEnds, tvars
  <2> QED BY <1>12, <2>1, ClientUntouched DEF wvars
<1>13. CASE ConnectionDies
  BY <1>13, ClientUntouched DEF ConnectionDies, wvars, tvars
<1>14. CASE UNCHANGED pvars
  BY <1>14, ClientUntouched DEF pvars, wvars, tvars
<1> QED BY <1>6, <1>7, <1>8, <1>9, <1>10, <1>11, <1>12, <1>13, <1>14
        DEF Next, ClientStep

-----------------------------------------------------------------------------
\* What the invariant says of the script, the writer and the reader.

\* The preamble: seven fields on path 0, three on any other path.
LEMMA PreambleFacts ==
    ASSUME opt \in Transfers, pathIndex \in PathIndexes
    PROVE  /\ Head0 = IF pathIndex = 0 THEN 7 ELSE 3
           /\ Head0 \in Nat
           /\ \A j \in 1..Head0 : IsField(WritePreamble[j])
           /\ WritePreamble = [j \in 1..Head0 |-> WritePreamble[j]]
           /\ pathIndex = 0 => WritePreamble = WriteControlHeader(Control)
           /\ pathIndex # 0 => WritePreamble = WritePathHello(Hello)
<1>1. CASE pathIndex = 0
  <2>1. PICK F : F = WriteControlHeader(Control)
    OBVIOUS
  <2>2. (\A i \in 1..7 : IsField(F[i])) /\ Len(F) = 7 /\ F = [i \in 1..7 |-> F[i]]
    BY <2>1, ControlFields
  <2>3. WritePreamble = F
    BY <1>1, <2>1 DEF WritePreamble
  <2>4. Head0 = 7
    BY <2>2, <2>3 DEF Head0
  <2> QED BY <1>1, <2>1, <2>2, <2>3, <2>4
<1>2. CASE pathIndex # 0
  <2>1. PICK F : F = WritePathHello(Hello)
    OBVIOUS
  <2>2. (\A i \in 1..3 : IsField(F[i])) /\ Len(F) = 3 /\ F = [i \in 1..3 |-> F[i]]
    BY <2>1, HelloFields
  <2>3. WritePreamble = F
    BY <1>2, <2>1 DEF WritePreamble
  <2>4. Head0 = 3
    BY <2>2, <2>3 DEF Head0
  <2> QED BY <1>2, <2>1, <2>2, <2>3, <2>4
<1> QED BY <1>1, <1>2

\* The script: the preamble, then seven fields for every chunk placed.
LEMMA ScriptFacts ==
    ASSUME ClientInv, WriterInv
    PROVE  /\ Len(placed) \in Nat /\ Head0 \in Nat /\ Total \in Nat
           /\ Total = Head0 + 7 * Len(placed)
           /\ \A j \in 1..Total : IsField(Script[j])
           /\ \A j \in 1..Head0 : Script[j] = WritePreamble[j]
           /\ ChunksFrom(Script, Head0, placed)
<1>1. opt \in Transfers /\ pathIndex \in PathIndexes
  BY DEF ClientInv
<1>2. Head0 \in Nat /\ \A j \in 1..Head0 : IsField(WritePreamble[j])
  BY <1>1, PreambleFacts, Zenon
<1>3. Len(placed) \in Nat /\ \A i \in 1..Len(placed) : FitsWire(placed[i])
  <2>1. PICK S : placed \in Seq(S)
    BY DEF WriterInv
  <2>2. \A i \in 1..Len(placed) : FitsWire(placed[i])
    BY DEF WriterInv
  <2> QED BY <2>1, <2>2
<1>4. Total = Head0 + 7 * Len(placed) /\ Total \in Nat
  BY <1>2, <1>3 DEF Total
<1>5. PICK pre, pl : pre = WritePreamble /\ pl = placed
  OBVIOUS
<1>6. /\ Len(pre) \in Nat /\ Len(pl) \in Nat /\ Head0 = Len(pre)
      /\ \A j \in 1..Len(pre) : IsField(pre[j])
      /\ \A m \in 1..Len(pl) : FitsWire(pl[m])
      /\ Script = ScriptOf(pre, pl)
      /\ Total = Len(pre) + 7 * Len(pl)
  BY <1>2, <1>3, <1>4, <1>5 DEF Head0, Script
<1>7. \A j \in 1..Total : IsField(Script[j])
  <2>1. \A j \in 1..(Len(pre) + 7 * Len(pl)) : IsField(ScriptOf(pre, pl)[j])
    BY <1>6, ScriptFields
  <2> QED BY <1>6, <2>1, Zenon
<1>8. \A j \in 1..Head0 : Script[j] = WritePreamble[j]
  <2>1. \A j \in 1..Len(pre) : ScriptOf(pre, pl)[j] = pre[j]
    BY <1>6, ScriptHead
  <2> QED BY <1>5, <1>6, <2>1, Zenon
<1>9. ChunksFrom(Script, Head0, placed)
  <2>1. ChunksFrom(ScriptOf(pre, pl), Len(pre), pl)
    BY <1>6, ScriptChunk
  <2> QED BY <1>5, <1>6, <2>1
<1> QED BY <1>2, <1>3, <1>4, <1>7, <1>8, <1>9

\* What is pending is the last part of the script.
LEMMA WriterFacts ==
    ASSUME ClientInv, WriterInv
    PROVE  \E n \in Nat :
              /\ n = Len(pending) /\ n <= Total /\ Written = Total - n /\ Written \in 0..Total
              /\ pending = [k \in 1..n |-> Script[Written + k]]
<1>1. Total \in Nat
  BY ScriptFacts
<1>2. PICK n \in 0..Total : pending = [k \in 1..n |-> Script[Total - n + k]]
  BY DEF WriterInv
<1>3. n \in Nat /\ n <= Total
  BY <1>1
<1>4. Len(pending) = n
  <2>1. PICK f : f = [k \in 1..n |-> Script[Total - n + k]]
    OBVIOUS
  <2>2. f = [k \in 1..n |-> f[k]]
    BY <2>1
  <2>3. Len(f) = n
    BY <1>3, <2>2
  <2> QED BY <1>2, <2>1, <2>3
<1>5. Written = Total - n /\ Written \in 0..Total
  BY <1>1, <1>3, <1>4 DEF Written
<1> QED BY <1>2, <1>3, <1>4, <1>5, Zenon

\* What was read so far does not go beyond what was written.
LEMMA ReaderFacts ==
    ASSUME ClientInv, WriterInv, ReaderInv, StreamInv
    PROVE  /\ \E n \in Nat :
                 /\ n = Count /\ n < Len(Fields)
                 /\ Decoded(got, Fields, Script, Before, n)
                 /\ Before + n <= Written
           /\ Len(Fields) \in Nat /\ Distinct(Fields) /\ Before \in Nat
           /\ Written \in Nat /\ Written <= Total
           /\ Len(frames) \in Nat /\ Len(frames) <= Len(placed)
<1>1. /\ Len(placed) \in Nat /\ Head0 \in Nat /\ Total \in Nat
      /\ Total = Head0 + 7 * Len(placed)
  BY ScriptFacts, Zenon
<1>2. Written \in Nat /\ Written <= Total
  BY <1>1, WriterFacts
<1>3. Len(Fields) \in Nat /\ Distinct(Fields)
  BY FieldsRead, Names DEF ReaderInv
<1>4. Len(frames) \in Nat
  <2>1. PICK S : frames \in Seq(S)
    BY DEF ReaderInv
  <2> QED BY <2>1
<1>5. Before \in Nat
  BY <1>1, <1>4 DEF Before
<1>6. PICK n \in 0..(Len(Fields) - 1) : Decoded(got, Fields, Script, Before, n)
  BY DEF ReaderInv
<1>7. n \in Nat /\ n < Len(Fields) /\ n \in 0..Len(Fields)
  BY <1>3
<1>8. Count = n
  BY <1>3, <1>6, <1>7, DecodedCount DEF Count
<1>9. Before + n <= Written
  BY <1>8 DEF StreamInv, Cut, CutAt
<1>10. Len(frames) <= Len(placed)
  <2>1. CASE reading = "chunk"
    <3>1. Before = Head0 + 7 * Len(frames)
      BY <2>1 DEF Before
    <3> QED BY <1>1, <1>2, <1>4, <1>7, <1>9, <3>1
  <2>2. CASE reading # "chunk"
    <3>1. frames = << >>
      BY <2>2 DEF ReaderInv
    <3> QED BY <1>1, <3>1
  <2> QED BY <2>1, <2>2
<1> QED BY <1>2, <1>3, <1>4, <1>5, <1>6, <1>7, <1>8, <1>9, <1>10

-----------------------------------------------------------------------------
\* Steps that neither write nor read.

\* They keep the invariant.
LEMMA Quiet ==
    ASSUME WriterInv, ReaderInv, StreamInv,
           UNCHANGED <<opt, pathIndex, placed, pending, reading, got, preamble, frames, stream>>,
           cpc' = "closed" => pending = << >>,
           rpc' = "eof" => rpc = "eof",
           cpc = "closed" => cpc' = "closed"
    PROVE  WriterInv' /\ ReaderInv' /\ StreamInv'
<1>1. WritePreamble' = WritePreamble
  BY DEF WritePreamble, WriteControlHeader, WritePathHello, Control, Hello
<1>2. /\ Head0' = Head0 /\ Total' = Total /\ Script' = Script /\ Written' = Written
  BY <1>1 DEF Head0, Total, Script, Written
<1>3. Fields' = Fields
  BY Zenon DEF Fields
<1>4. Before' = Before /\ Count' = Count /\ PreambleFields' = PreambleFields
  BY <1>2 DEF Before, Count, PreambleFields
<1>5. WriterInv'
  BY <1>2 DEF WriterInv
<1>6. ReaderInv'
  BY <1>2, <1>3, <1>4, Zenon DEF ReaderInv
<1>7. StreamInv'
  BY <1>2, <1>4 DEF StreamInv
<1> QED BY <1>5, <1>6, <1>7

\* The reader's part when the script grows at its end.
LEMMA ReaderSame ==
    ASSUME ClientInv, WriterInv, ReaderInv, StreamInv,
           UNCHANGED <<opt, pathIndex, reading, got, preamble, frames, rpc, cpc>>,
           \A j \in 1..Total : Script'[j] = Script[j],
           cpc = "closed" => placed' = placed
    PROVE  ReaderInv' /\ Before' = Before /\ Count' = Count
<1>1. WritePreamble' = WritePreamble
  BY DEF WritePreamble, WriteControlHeader, WritePathHello, Control, Hello
<1>2. Head0' = Head0
  BY <1>1 DEF Head0
<1>3. Fields' = Fields
  BY Zenon DEF Fields
<1>4. Before' = Before /\ Count' = Count /\ PreambleFields' = PreambleFields
  BY <1>2 DEF Before, Count, PreambleFields
<1>5. /\ Len(placed) \in Nat /\ Head0 \in Nat /\ Total \in Nat
      /\ Total = Head0 + 7 * Len(placed)
  BY ScriptFacts, Zenon
<1>6. PICK n \in Nat :
         /\ n < Len(Fields) /\ Decoded(got, Fields, Script, Before, n)
         /\ Before + n <= Written
  BY ReaderFacts
<1>7. /\ Len(Fields) \in Nat /\ Before \in Nat /\ Written \in Nat /\ Written <= Total
      /\ Len(frames) \in Nat /\ Len(frames) <= Len(placed)
  BY ReaderFacts, Zenon
<1>8. Decoded(got, Fields, Script', Before, n)
  <2>1. ASSUME NEW i \in 1..n PROVE Script[Before + i] = Script'[Before + i]
    <3>1. Before + i \in 1..Total
      BY <1>5, <1>6, <1>7
    <3> QED BY <3>1
  <2> QED BY <1>6, <2>1, DecodedSame
<1>9. n \in 0..(Len(Fields) - 1)
  BY <1>6, <1>7
<1>10. ASSUME reading = "chunk"
       PROVE  Decoded(preamble, PreambleFields, Script', 1, Len(PreambleFields))
  <2>1. Decoded(preamble, PreambleFields, Script, 1, Len(PreambleFields))
    BY <1>10 DEF ReaderInv
  <2>2. PICK l \in Nat : l = Len(PreambleFields) /\ 1 + l <= Head0
    <3>1. /\ pathIndex = 0 => Len(PreambleFields) = 6
          /\ pathIndex # 0 => Len(PreambleFields) = 2
      BY Names DEF PreambleFields
    <3>2. Head0 = IF pathIndex = 0 THEN 7 ELSE 3
      BY PreambleFacts DEF ClientInv
    <3>3. \/ Len(PreambleFields) = 6 /\ Head0 = 7
          \/ Len(PreambleFields) = 2 /\ Head0 = 3
      BY <3>1, <3>2, Zenon
    <3>4. CASE Len(PreambleFields) = 6 /\ Head0 = 7
      <4>1. 6 \in Nat /\ 1 + 6 <= 7
        OBVIOUS
      <4> QED BY <3>4, <4>1, Zenon
    <3>5. CASE Len(PreambleFields) = 2 /\ Head0 = 3
      <4>1. 2 \in Nat /\ 1 + 2 <= 3
        OBVIOUS
      <4> QED BY <3>5, <4>1, Zenon
    <3> QED BY <3>3, <3>4, <3>5, Zenon
  <2>3. ASSUME NEW i \in 1..l PROVE Script[1 + i] = Script'[1 + i]
    <3>1. 1 + i \in 1..Total
      BY <1>5, <2>2
    <3> QED BY <3>1
  <2>4. Decoded(preamble, PreambleFields, Script', 1, l)
    BY <2>1, <2>2, <2>3, DecodedSame
  <2> QED BY <2>2, <2>4
<1>11. ASSUME NEW i \in 1..Len(frames)
       PROVE  Decoded(frames[i], ReadChunk, Script', Head0 + 7 * (i - 1), 7)
  <2>1. Decoded(frames[i], ReadChunk, Script, Head0 + 7 * (i - 1), 7)
    BY DEF ReaderInv
  <2>2. PICK f : f = Head0 + 7 * (i - 1)
    OBVIOUS
  <2>3. ASSUME NEW k \in 1..7 PROVE Script[f + k] = Script'[f + k]
    <3>1. f + k \in 1..Total
      BY <1>5, <1>7, <2>2
    <3> QED BY <3>1
  <2>4. Decoded(frames[i], ReadChunk, Script', f, 7)
    BY <2>1, <2>2, <2>3, DecodedSame
  <2> QED BY <2>2, <2>4
<1>12. /\ \E m \in 0..(Len(Fields') - 1) : Decoded(got', Fields', Script', Before', m)
       /\ reading' = "chunk" =>
             Decoded(preamble', PreambleFields', Script', 1, Len(PreambleFields'))
       /\ \A i \in 1..Len(frames') : Decoded(frames'[i], ReadChunk, Script', Head0' + 7 * (i - 1), 7)
  BY <1>2, <1>3, <1>4, <1>8, <1>9, <1>10, <1>11, Zenon
<1>13. /\ reading' \in {"kind", "control", "hello", "chunk"}
       /\ reading' = "control" => pathIndex' = 0
       /\ reading' = "hello" => pathIndex' # 0
       /\ reading' # "chunk" => preamble' = << >> /\ frames' = << >>
       /\ \E S : frames' \in Seq(S)
       /\ rpc' = "eof" => cpc' = "closed" /\ Len(frames') = Len(placed')
  BY Zenon DEF ReaderInv
<1> QED BY <1>4, <1>12, <1>13, Zenon DEF ReaderInv

-----------------------------------------------------------------------------
\* Steps that write.

\* A chunk is placed on this path: seven more fields, all still to be written.
LEMMA ChunkPlaced ==
    ASSUME ClientInv, WriterInv, ReaderInv, StreamInv, PlaceChunk(TRUE),
           UNCHANGED <<hvars, stream>>
    PROVE  WriterInv' /\ ReaderInv' /\ StreamInv'
<1>1. PICK c : c = chunks[next + 1]
  OBVIOUS
<1>2. /\ cpc = "send" /\ cpc' = cpc /\ pending = << >> /\ next < Len(chunks)
      /\ pending' = WriteChunk(c) /\ placed' = Append(placed, c)
      /\ UNCHANGED <<opt, pathIndex>>
  BY <1>1 DEF PlaceChunk
<1>3. FitsWire(c)
  <2>1. PICK T : chunks \in Seq(T)
    BY DEF ClientInv
  <2>2. next \in 0..Len(chunks)
    BY DEF ClientInv
  <2>3. next + 1 \in 1..Len(chunks)
    BY <1>2, <2>1, <2>2
  <2> QED BY <1>1, <1>2, <2>3, PlacedFits
<1>4. PICK S : placed \in Seq(S)
  BY DEF WriterInv
<1>5. PICK T : T = S \cup {c}
  OBVIOUS
<1>6. placed \in Seq(T) /\ c \in T
  <2>1. PICK n \in Nat : n = Len(placed)
    BY <1>4
  <2>2. placed = [i \in 1..n |-> placed[i]] /\ \A i \in 1..n : placed[i] \in S
    BY <1>4, <2>1
  <2>3. placed \in [1..n -> T] /\ c \in T
    BY <1>5, <2>2, Zenon
  <2> QED BY <2>3
<1>7. /\ placed' \in Seq(T) /\ Len(placed') = Len(placed) + 1
      /\ Len(placed) \in Nat /\ Len(placed') \in Nat
      /\ placed'[Len(placed) + 1] = c
      /\ \A i \in 1..Len(placed) : placed'[i] = placed[i]
  BY <1>2, <1>6
<1>8. /\ Head0 \in Nat /\ Total \in Nat /\ Total = Head0 + 7 * Len(placed)
  BY ScriptFacts, Zenon
<1>9. WritePreamble' = WritePreamble /\ Head0' = Head0 /\ Head0 = Len(WritePreamble)
  BY <1>2 DEF WritePreamble, WriteControlHeader, WritePathHello, Control, Hello, Head0
<1>10. PICK pre, pl : pre = WritePreamble /\ pl = placed'
  OBVIOUS
<1>11. /\ Script' = ScriptOf(pre, pl) /\ Script = ScriptOf(pre, placed)
       /\ Len(pre) = Head0 /\ Len(pre) \in Nat /\ Len(pl) = Len(placed) + 1 /\ Len(pl) \in Nat
       /\ pl = Append(placed, c) /\ pl[Len(placed) + 1] = c
  BY <1>2, <1>7, <1>8, <1>9, <1>10 DEF Script
<1>12. \A j \in 1..Total : Script'[j] = Script[j]
  <2>1. PICK q : q = placed
    OBVIOUS
  <2>2. q \in Seq(T) /\ pl = Append(q, c)
    BY <1>6, <1>11, <2>1
  <2>3. \A j \in 1..(Len(pre) + 7 * Len(q)) : ScriptOf(pre, Append(q, c))[j] = ScriptOf(pre, q)[j]
    BY <1>6, <1>11, <2>2, ScriptGrows
  <2> QED BY <1>8, <1>11, <2>1, <2>2, <2>3, Zenon
<1>13. Total' = Total + 7 /\ Total' \in Nat
  BY <1>7, <1>8, <1>9 DEF Total
<1>14. PICK F : F = WriteChunk(c)
  OBVIOUS
<1>15. Len(F) = 7 /\ F = [k \in 1..7 |-> F[k]]
  BY <1>3, <1>14, ChunkFields
<1>16. ASSUME NEW k \in 1..7 PROVE Script'[Total' - 7 + k] = F[k]
  <2>1. ChunksFrom(Script', Head0, pl)
    BY <1>11, ScriptChunk
  <2>2. PICK m : m = Len(placed) + 1
    OBVIOUS
  <2>3. m \in 1..Len(pl)
    BY <1>7, <1>11, <2>2
  <2>4. Script'[Head0 + 7 * (m - 1) + k] = WriteChunk(pl[m])[k]
    BY <2>1, <2>3, Zenon DEF ChunksFrom
  <2>5. Head0 + 7 * (m - 1) + k = Total' - 7 + k
    BY <1>7, <1>8, <1>13, <2>2
  <2>6. pl[m] = c
    BY <1>11, <2>2
  <2> QED BY <1>14, <2>4, <2>5, <2>6, Zenon
<1>17. WriterInv'
  <2>1. 7 \in 0..Total'
    BY <1>8, <1>13
  <2>2. pending' = [k \in 1..7 |-> Script'[Total' - 7 + k]]
    BY <1>2, <1>14, <1>15, <1>16, Zenon
  <2>3. \E n \in 0..Total' : pending' = [k \in 1..n |-> Script'[Total' - n + k]]
    BY <2>1, <2>2, Zenon
  <2>4. ASSUME NEW i \in 1..Len(placed') PROVE FitsWire(placed'[i])
    <3>1. CASE i \in 1..Len(placed)
      <4>1. FitsWire(placed[i])
        BY <3>1 DEF WriterInv
      <4> QED BY <1>7, <3>1, <4>1, Zenon
    <3>2. CASE i = Len(placed) + 1
      BY <1>3, <1>7, <3>2, Zenon
    <3> QED BY <1>7, <3>1, <3>2
  <2>5. cpc' # "closed"
    BY <1>2
  <2> QED BY <1>7, <2>3, <2>4, <2>5, Zenon DEF WriterInv
<1>18. ReaderInv' /\ Before' = Before /\ Count' = Count
  <2>1. UNCHANGED <<opt, pathIndex, reading, got, preamble, frames, rpc, cpc>>
    BY <1>2 DEF hvars
  <2>2. cpc # "closed"
    BY <1>2
  <2> QED BY <1>12, <2>1, <2>2, ReaderSame
<1>19. Written = Total /\ Written' = Total
  <2>1. Len(pending) = 0 /\ Len(pending') = 7
    BY <1>2, <1>14, <1>15
  <2> QED BY <1>8, <1>13, <2>1 DEF Written
<1>20. StreamInv'
  <2>1. stream \in Seq(Nat) /\ Cut(stream, Script, Before + Count, Total)
    BY <1>19 DEF StreamInv
  <2>2. PICK r : r = Before + Count
    OBVIOUS
  <2>3. r \in Nat
    BY <2>1, <2>2 DEF Cut, CutAt
  <2>4. \A i \in (r + 1)..Total : Script[i] = Script'[i]
    BY <1>8, <1>12, <2>3
  <2>5. Cut(stream, Script', r, Total)
    BY <2>1, <2>2, <2>4, CutSame
  <2> QED BY <1>18, <1>19, <2>1, <2>2, <2>5 DEF StreamInv
<1> QED BY <1>17, <1>18, <1>20

\* One call of Write moves the first pending field onto the stream.
LEMMA FieldWritten ==
    ASSUME ClientInv, WriterInv, ReaderInv, StreamInv, WriteField, UNCHANGED hvars
    PROVE  WriterInv' /\ ReaderInv' /\ StreamInv'
<1>1. /\ pending # << >> /\ stream' = stream \o Head(pending) /\ pending' = Tail(pending)
      /\ UNCHANGED <<opt, pathIndex, cpc, placed>>
  BY DEF WriteField
<1>2. WritePreamble' = WritePreamble
  BY <1>1 DEF WritePreamble, WriteControlHeader, WritePathHello, Control, Hello
<1>3. Head0' = Head0 /\ Total' = Total /\ Script' = Script
  BY <1>1, <1>2 DEF Head0, Total, Script
<1>4. Total \in Nat /\ \A j \in 1..Total : IsField(Script[j])
  BY ScriptFacts, Zenon
<1>5. PICK n \in Nat :
         /\ n = Len(pending) /\ n <= Total /\ Written = Total - n /\ Written \in 0..Total
         /\ pending = [k \in 1..n |-> Script[Written + k]]
  BY WriterFacts
<1>6. PICK w \in Nat, t \in Nat : w = Written /\ t = Total /\ w = t - n
  <2>1. Written \in Nat /\ Total \in Nat /\ Written = Total - n
    BY <1>4, <1>5
  <2> QED BY <2>1, Zenon
<1>7. n # 0
  <2>1. n = 0 => pending = << >>
    BY <1>5
  <2> QED BY <1>1, <2>1
<1>8. PICK B : \A k \in 1..n : Script[w + k] \in B
  <2>1. PICK D : D = {Script[w + k] : k \in 1..n}
    OBVIOUS
  <2>2. \A k \in 1..n : Script[w + k] \in D
    BY <2>1, Zenon
  <2> QED BY <2>2
<1>9. pending \in Seq(B)
  <2>0. pending = [k \in 1..n |-> Script[w + k]]
    BY <1>5, <1>6
  <2>1. pending \in [1..n -> B]
    BY <1>8, <2>0, Zenon
  <2> QED BY <2>1
<1>10. /\ Head(pending) = pending[1] /\ pending[1] = Script[w + 1]
       /\ Len(pending') = n - 1
       /\ \A k \in 1..(n - 1) : pending'[k] = pending[k + 1]
       /\ pending' = [k \in 1..(n - 1) |-> pending'[k]]
  <2>1. 1 \in 1..n
    BY <1>7
  <2>2. pending[1] = Script[w + 1]
    BY <1>5, <1>6, <2>1, Zenon
  <2>3. Head(pending) = pending[1]
    BY <1>1, <1>9
  <2>4. PICK q : q = Tail(pending)
    OBVIOUS
  <2>5. Len(q) = n - 1 /\ \A k \in 1..(n - 1) : q[k] = pending[k + 1]
    BY <1>1, <1>5, <1>7, <1>9, <2>4
  <2>6. q \in Seq(B)
    BY <1>1, <1>9, <2>4
  <2>7. q = [k \in 1..(n - 1) |-> q[k]]
    BY <2>5, <2>6
  <2> QED BY <1>1, <2>2, <2>3, <2>4, <2>5, <2>7, Zenon
<1>11. WriterInv'
  <2>1. PICK l \in Nat : l = n - 1
    BY <1>7
  <2>2. l \in 0..Total
    BY <1>4, <1>5, <2>1
  <2>3. ASSUME NEW k \in 1..l PROVE pending'[k] = Script[Total - l + k]
    <3>1. k + 1 \in 1..n /\ w + (k + 1) = Total - l + k
      BY <1>6, <2>1
    <3>2. pending[k + 1] = Script[w + (k + 1)]
      BY <1>5, <1>6, <3>1, Zenon
    <3>3. pending'[k] = pending[k + 1]
      BY <1>10, <2>1
    <3> QED BY <3>1, <3>2, <3>3, Zenon
  <2>4. pending' = [k \in 1..l |-> Script[Total - l + k]]
    BY <1>10, <2>1, <2>3, Zenon
  <2>5. \E m \in 0..Total' : pending' = [k \in 1..m |-> Script'[Total' - m + k]]
    BY <1>3, <2>2, <2>4, Zenon
  <2>6. /\ \E S : placed' \in Seq(S)
        /\ \A i \in 1..Len(placed') : FitsWire(placed'[i])
        /\ cpc' # "closed"
    BY <1>1 DEF WriterInv
  <2> QED BY <2>5, <2>6, Zenon DEF WriterInv
<1>12. ReaderInv' /\ Before' = Before /\ Count' = Count
  <2>1. UNCHANGED <<opt, pathIndex, reading, got, preamble, frames, rpc, cpc>>
    BY <1>1 DEF hvars
  <2>2. \A j \in 1..Total : Script'[j] = Script[j]
    BY <1>3
  <2> QED BY <1>1, <2>1, <2>2, ReaderSame
<1>13. Written' = w + 1
  BY <1>3, <1>6, <1>10 DEF Written
<1>14. StreamInv'
  <2>1. PICK r, F, s : r = Before + Count /\ F = Script /\ s = stream
    OBVIOUS
  <2>2. s \in Seq(Nat) /\ Cut(s, F, r, w)
    BY <1>6, <2>1 DEF StreamInv
  <2>3. r \in Nat
    BY <2>2 DEF Cut, CutAt
  <2>4. \A i \in (r + 1)..(w + 1) : IsField(F[i])
    <3>1. \A i \in (r + 1)..(w + 1) : i \in 1..Total
      BY <1>6, <1>7, <2>3
    <3> QED BY <1>4, <2>1, <3>1, Zenon
  <2>5. s \o F[w + 1] \in Seq(Nat) /\ Cut(s \o F[w + 1], F, r, w + 1)
    BY <2>2, <2>4, CutGrows
  <2>6. stream' = s \o F[w + 1]
    BY <1>1, <1>10, <2>1, Zenon
  <2>7. Script' = F /\ Before' + Count' = r
    BY <1>3, <1>12, <2>1
  <2> QED BY <1>13, <2>5, <2>6, <2>7, Zenon DEF StreamInv
<1> QED BY <1>11, <1>12, <1>14

-----------------------------------------------------------------------------
\* Steps that read.

\* The next field is asked for with the width it has, or was not written yet.
LEMMA NextWidth ==
    ASSUME ClientInv, WriterInv, ReaderInv, StreamInv
    PROVE  /\ Needed \in Nat \ {0}
           /\ \A r \in Nat : r = Before + Count /\ r < Total => Needed = Len(Script[r + 1])
           /\ Before + Count < Total \/ (reading = "chunk" /\ Before + Count = Total)
<1>1. /\ Len(placed) \in Nat /\ Head0 \in Nat /\ Total \in Nat
      /\ Total = Head0 + 7 * Len(placed)
      /\ \A j \in 1..Total : IsField(Script[j])
      /\ \A j \in 1..Head0 : Script[j] = WritePreamble[j]
      /\ ChunksFrom(Script, Head0, placed)
  BY ScriptFacts, Zenon
<1>2. PICK n \in Nat :
         /\ n = Count /\ n < Len(Fields) /\ Decoded(got, Fields, Script, Before, n)
         /\ Before + n <= Written
  BY ReaderFacts
<1>3. /\ Before \in Nat /\ Written \in Nat /\ Written <= Total
      /\ Len(frames) \in Nat /\ Len(frames) <= Len(placed)
  BY ReaderFacts, Zenon
<1>4. opt \in Transfers /\ pathIndex \in PathIndexes
  BY DEF ClientInv
<1>5. /\ Head0 = IF pathIndex = 0 THEN 7 ELSE 3
      /\ pathIndex = 0 => WritePreamble = WriteControlHeader(Control)
      /\ pathIndex # 0 => WritePreamble = WritePathHello(Hello)
  BY <1>4, PreambleFacts, Zenon
<1>6. Needed = Width(Fields[n + 1], got)
  BY <1>2 DEF Needed, Field, Count
<1>7. ASSUME NEW r \in Nat, r = Before + n, r < Total, Needed = Len(Script[r + 1])
      PROVE  /\ Needed \in Nat \ {0}
             /\ \A q \in Nat : q = Before + Count /\ q < Total => Needed = Len(Script[q + 1])
             /\ Before + Count < Total
  <2>1. r + 1 \in 1..Total
    BY <1>1, <1>7
  <2>2. IsField(Script[r + 1])
    BY <1>1, <2>1
  <2> QED BY <1>2, <1>7, <2>2 DEF IsField
<1>8. CASE reading = "kind"
  <2>1. Fields = ReadStreamKind /\ Before = 0 /\ Len(Fields) = 1
    BY <1>8, FieldsRead, Names DEF Before
  <2>2. n = 0
    BY <1>2, <2>1
  <2>3. Needed = 1
    <3>1. ReadStreamKind[n + 1] = "kind"
      BY <2>2 DEF ReadStreamKind
    <3> QED BY <1>6, <2>1, <3>1, Widths, Zenon
  <2>4. Len(Script[1]) = 1
    <3>1. 1 \in 1..Head0
      BY <1>5
    <3>2. Script[1] = WritePreamble[1]
      BY <1>1, <3>1
    <3>3. CASE pathIndex = 0
      <4>1. Len(WriteControlHeader(Control)[1]) = 1
        BY <1>4, ControlFields
      <4> QED BY <1>5, <3>2, <3>3, <4>1
    <3>4. CASE pathIndex # 0
      <4>1. Len(WritePathHello(Hello)[1]) = 1
        BY <1>4, HelloFields
      <4> QED BY <1>5, <3>2, <3>4, <4>1
    <3> QED BY <3>3, <3>4
  <2>5. 0 \in Nat /\ 0 = Before + n /\ 0 < Total /\ 0 + 1 = 1
    BY <1>1, <1>5, <2>1, <2>2
  <2> QED BY <1>7, <2>3, <2>4, <2>5
<1>9. CASE reading = "control"
  <2>1. Fields = ReadControlHeader /\ Before = 1 /\ Len(Fields) = 6 /\ pathIndex = 0
    BY <1>9, FieldsRead, Names DEF Before, ReaderInv
  <2>2. n \in 0..5
    BY <1>2, <2>1
  <2>3. Head0 = 7 /\ WritePreamble = WriteControlHeader(Control)
    BY <1>5, <2>1
  <2>4. PICK F : F = Script
    OBVIOUS
  <2>5. \A k \in 1..7 : F[k] = WriteControlHeader(Control)[k]
    BY <1>1, <2>3, <2>4, Zenon
  <2>6. Decoded(got, ReadControlHeader, F, 1, n)
    BY <1>2, <2>1, <2>4
  <2>7. Width(ReadControlHeader[n + 1], got) = Len(F[n + 2])
    BY <1>4, <2>2, <2>5, <2>6, ControlWidths
  <2>8. n + 1 \in Nat /\ n + 1 = Before + n /\ n + 1 < Total /\ (n + 1) + 1 = n + 2
    BY <1>1, <2>1, <2>2, <2>3
  <2> QED BY <1>6, <1>7, <2>1, <2>4, <2>7, <2>8
<1>10. CASE reading = "hello"
  <2>1. Fields = ReadPathHello /\ Before = 1 /\ Len(Fields) = 2 /\ pathIndex # 0
    BY <1>10, FieldsRead, Names DEF Before, ReaderInv
  <2>2. n \in 0..1
    BY <1>2, <2>1
  <2>3. Head0 = 3 /\ WritePreamble = WritePathHello(Hello)
    BY <1>5, <2>1
  <2>4. PICK F : F = Script
    OBVIOUS
  <2>5. \A k \in 1..3 : F[k] = WritePathHello(Hello)[k]
    BY <1>1, <2>3, <2>4, Zenon
  <2>6. Width(ReadPathHello[n + 1], got) = Len(F[n + 2])
    BY <1>4, <2>2, <2>5, HelloWidths
  <2>7. n + 1 \in Nat /\ n + 1 = Before + n /\ n + 1 < Total /\ (n + 1) + 1 = n + 2
    BY <1>1, <2>1, <2>2, <2>3
  <2> QED BY <1>6, <1>7, <2>1, <2>4, <2>6, <2>7
<1>11. CASE reading = "chunk"
  <2>1. Fields = ReadChunk /\ Before = Head0 + 7 * Len(frames) /\ Len(Fields) = 7
    BY <1>11, FieldsRead, Names DEF Before
  <2>2. n \in 0..6
    BY <1>2, <2>1
  <2>3. CASE Len(frames) < Len(placed)
    <3>1. PICK m, F, c : m = Len(frames) + 1 /\ F = Script /\ c = placed[m]
      OBVIOUS
    <3>2. m \in 1..Len(placed) /\ Head0 + 7 * (m - 1) = Before
      BY <1>1, <1>3, <2>1, <2>3, <3>1
    <3>3. FitsWire(c)
      BY <3>1, <3>2 DEF WriterInv
    <3>4. \A k \in 1..7 : F[Before + k] = WriteChunk(c)[k]
      BY <1>1, <3>1, <3>2, Zenon DEF ChunksFrom
    <3>5. Decoded(got, ReadChunk, F, Before, n)
      BY <1>2, <2>1, <3>1
    <3>6. Width(ReadChunk[n + 1], got) = Len(F[Before + (n + 1)])
      BY <2>2, <3>3, <3>4, <3>5, ChunkWidths
    <3>7. /\ Before + n \in Nat /\ Before + n < Total
          /\ (Before + n) + 1 = Before + (n + 1)
      BY <1>1, <1>3, <2>1, <2>2, <2>3
    <3> QED BY <1>6, <1>7, <2>1, <3>1, <3>6, <3>7
  <2>4. CASE Len(frames) = Len(placed)
    <3>1. n = 0 /\ Before + Count = Total
      BY <1>1, <1>2, <1>3, <2>1, <2>4
    <3>2. Needed = W64
      <4>1. ReadChunk[n + 1] = "seq"
        BY <3>1 DEF ReadChunk
      <4> QED BY <1>6, <2>1, <4>1, Widths, Zenon
    <3> QED BY <1>1, <1>11, <3>1, <3>2, WidthAssumption
  <2> QED BY <1>1, <1>3, <2>3, <2>4
<1> QED BY <1>8, <1>9, <1>10, <1>11 DEF ReaderInv

\* A read that finds the stream ended and too short finds it empty, between
\* two frames: the client wrote whole frames before it closed, and a field
\* that was written is there as a whole.
LEMMA EndOfStream ==
    ASSUME ClientInv, WriterInv, ReaderInv, StreamInv, fin, Len(stream) < Needed
    PROVE  /\ cpc = "closed" /\ reading = "chunk" /\ stream = << >>
           /\ Len(frames) = Len(placed)
<1>1. cpc = "closed" /\ pending = << >> /\ Len(pending) = 0
  BY DEF ClientInv, WriterInv
<1>2. /\ Len(placed) \in Nat /\ Head0 \in Nat /\ Total \in Nat
      /\ Total = Head0 + 7 * Len(placed)
      /\ \A j \in 1..Total : IsField(Script[j])
  BY ScriptFacts, Zenon
<1>3. Written = Total
  BY <1>1, <1>2 DEF Written
<1>4. PICK n \in Nat : n = Count /\ n < Len(Fields) /\ Before + n <= Written
  BY ReaderFacts
<1>5. Before \in Nat /\ Len(frames) \in Nat
  BY ReaderFacts, Zenon
<1>6. PICK r \in Nat, w \in Nat :
         r = Before + Count /\ w = Total
  <2>1. Before + Count \in Nat
    BY <1>4, <1>5
  <2> QED BY <1>2, <2>1, Zenon
<1>6s. PICK s, F : s = stream /\ F = Script
  OBVIOUS
<1>7. r <= w
  BY <1>3, <1>4, <1>6, <1>6s
<1>8. s \in Seq(Nat) /\ Cut(s, F, r, w)
  BY <1>3, <1>6, <1>6s DEF StreamInv
<1>9. ASSUME r < w PROVE FALSE
  <2>1. \A i \in (r + 1)..w : IsField(F[i])
    <3>1. \A i \in (r + 1)..w : i \in 1..Total
      BY <1>6, <1>6s
    <3> QED BY <1>2, <1>6, <1>6s, <3>1, Zenon
  <2>2. PICK l \in Nat : l = Len(F[r + 1]) /\ l <= Len(s)
    BY <1>8, <1>9, <2>1, CutShrinks
  <2>3. Needed = Len(F[r + 1])
    <3>1. r < Total
      BY <1>6, <1>6s, <1>9
    <3> QED BY <1>6, <1>6s, <3>1, NextWidth, Zenon
  <2>4. Needed = l /\ Len(s) < Needed /\ Len(s) \in Nat
    BY <1>6, <1>6s, <1>8, <2>2, <2>3
  <2> QED BY <2>2, <2>4
<1>10. r = w
  BY <1>7, <1>9
<1>11. stream = << >>
  <2>1. Len(s) = 0
    <3>1. Cut(s, F, r, r)
      BY <1>8, <1>10
    <3> QED BY <3>1, CutNothing
  <2>2. s = << >>
    BY <1>8, <2>1
  <2> QED BY <1>6, <1>6s, <2>2
<1>12. reading = "chunk"
  <2>1. ~(Before + Count < Total)
    BY <1>6, <1>6s, <1>10
  <2> QED BY <2>1, NextWidth, Zenon
<1>13. Before = Head0 + 7 * Len(frames) /\ Len(Fields) = 7
  BY <1>12, FieldsRead, Names DEF Before
<1>14. Before + n = Total
  BY <1>4, <1>6, <1>6s, <1>10
<1>15. Len(frames) = Len(placed)
  BY <1>2, <1>4, <1>5, <1>13, <1>14
<1> QED BY <1>1, <1>11, <1>12, <1>15

\* So the end of the stream keeps the invariant.
LEMMA StreamEnded ==
    ASSUME ClientInv, WriterInv, ReaderInv, StreamInv, ReadEnds, UNCHANGED wvars
    PROVE  WriterInv' /\ ReaderInv' /\ StreamInv'
<1>1. /\ UNCHANGED <<opt, pathIndex, placed, pending, cpc, reading, got, preamble, frames, stream>>
      /\ fin /\ Len(stream) < Needed
  BY DEF ReadEnds, wvars, tvars
<1>2. cpc = "closed" /\ Len(frames) = Len(placed)
  BY <1>1, EndOfStream
<1>3. WritePreamble' = WritePreamble
  BY <1>1 DEF WritePreamble, WriteControlHeader, WritePathHello, Control, Hello
<1>4. Head0' = Head0 /\ Total' = Total /\ Script' = Script /\ Written' = Written
  BY <1>1, <1>3 DEF Head0, Total, Script, Written
<1>5. Fields' = Fields
  BY <1>1, Zenon DEF Fields
<1>6. Before' = Before /\ Count' = Count /\ PreambleFields' = PreambleFields
  BY <1>1, <1>4 DEF Before, Count, PreambleFields
<1>7. WriterInv'
  BY <1>1, <1>4 DEF WriterInv
<1>8. ReaderInv'
  BY <1>1, <1>2, <1>4, <1>5, <1>6, Zenon DEF ReaderInv
<1>9. StreamInv'
  BY <1>1, <1>4, <1>6 DEF StreamInv
<1> QED BY <1>7, <1>8, <1>9

\* A reader's list after a step.
LEMMA FieldsReadNext ==
    /\ reading' = "control" => Fields' = ReadControlHeader
    /\ reading' = "hello" => Fields' = ReadPathHello
    /\ reading' = "chunk" => Fields' = ReadChunk
<1>1. /\ "kind" # "control" /\ "kind" # "hello" /\ "kind" # "chunk"
      /\ "control" # "hello" /\ "control" # "chunk" /\ "hello" # "chunk"
  OBVIOUS
<1>2. reading' = "control" => Fields' = ReadControlHeader
  BY <1>1, Zenon DEF Fields
<1>3. reading' = "hello" => Fields' = ReadPathHello
  BY <1>1, Zenon DEF Fields
<1>4. reading' = "chunk" => Fields' = ReadChunk
  BY <1>1, Zenon DEF Fields
<1> QED BY <1>2, <1>3, <1>4

\* What Completed does with a message, by what was being read.
LEMMA CompletedCases ==
    ASSUME NEW msg, Completed(msg)
    PROVE  /\ got' = << >>
           /\ reading = "kind" =>
                 /\ reading' = IF msg.kind = StreamKindControl THEN "control" ELSE "hello"
                 /\ rpc' \in {"read", "error"} /\ UNCHANGED <<preamble, frames>>
           /\ reading \in {"control", "hello"} =>
                 /\ preamble' = msg /\ reading' = "chunk"
                 /\ rpc' \in {"read", "panic"} /\ UNCHANGED frames
           /\ reading = "chunk" =>
                 frames' = Append(frames, msg) /\ UNCHANGED <<rpc, reading, preamble>>
<1>1. /\ "kind" # "control" /\ "kind" # "hello" /\ "kind" # "chunk"
      /\ "control" # "hello" /\ "control" # "chunk" /\ "hello" # "chunk"
  OBVIOUS
<1>2. got' = << >>
  BY Zenon DEF Completed
<1>3. CASE reading = "kind"
  <2>1. /\ reading' = IF msg.kind = StreamKindControl THEN "control" ELSE "hello"
        /\ rpc' = IF msg.kind \in {StreamKindControl, StreamKindPath} THEN "read" ELSE "error"
        /\ UNCHANGED <<preamble, frames>>
    BY <1>1, <1>3, Zenon DEF Completed
  <2>2. rpc' \in {"read", "error"}
    BY <2>1, Zenon
  <2> QED BY <1>1, <1>2, <1>3, <2>1, <2>2, Zenon
<1>4. CASE reading \in {"control", "hello"}
  <2>1. /\ preamble' = msg /\ reading' = "chunk"
        /\ rpc' = IF reading = "control" /\ StartPanics(msg) THEN "panic" ELSE "read"
        /\ UNCHANGED frames
    BY <1>1, <1>4, Zenon DEF Completed
  <2>2. rpc' \in {"read", "panic"}
    BY <2>1, Zenon
  <2> QED BY <1>1, <1>2, <1>4, <2>1, <2>2, Zenon
<1>5. CASE reading = "chunk"
  <2>1. frames' = Append(frames, msg) /\ UNCHANGED <<rpc, reading, preamble>>
    BY <1>1, <1>5, Zenon DEF Completed
  <2> QED BY <1>1, <1>2, <1>5, <2>1, Zenon
<1> QED BY <1>2, <1>3, <1>4, <1>5, Zenon

\* The kind that was read is that of the path's preamble.
LEMMA KindRead ==
    ASSUME ClientInv, WriterInv, ReaderInv, StreamInv, reading = "kind", NEW now,
           Decoded(now, Fields, Script, Before, Len(Fields))
    PROVE  now["kind"] = IF pathIndex = 0 THEN StreamKindControl ELSE StreamKindPath
<1>1. opt \in Transfers /\ pathIndex \in PathIndexes
  BY DEF ClientInv
<1>2. /\ Head0 = IF pathIndex = 0 THEN 7 ELSE 3
      /\ pathIndex = 0 => WritePreamble = WriteControlHeader(Control)
      /\ pathIndex # 0 => WritePreamble = WritePathHello(Hello)
  BY <1>1, PreambleFacts, Zenon
<1>3. Fields = ReadStreamKind /\ Before = 0 /\ Len(Fields) = 1
  BY FieldsRead, Names DEF Before
<1>4. now["kind"] = Value(Script[1])
  <2>1. 1 \in 1..Len(Fields) /\ 0 + 1 = 1 /\ "kind" \notin {"scheduler", "data"}
    BY <1>3
  <2>2. Fields[1] = "kind"
    BY <1>3 DEF ReadStreamKind
  <2>3. now[Fields[1]] = Decode(Fields[1], Script[Before + 1])
    BY <2>1, Zenon DEF Decoded
  <2> QED BY <1>3, <2>1, <2>2, <2>3, Zenon DEF Decode
<1>5. Script[1] = WritePreamble[1]
  <2>1. 1 \in 1..Head0
    BY <1>2
  <2> QED BY <2>1, ScriptFacts, Zenon
<1>6. CASE pathIndex = 0
  <2>1. Value(WriteControlHeader(Control)[1]) = StreamKindControl
    BY <1>1, ControlFields
  <2> QED BY <1>2, <1>4, <1>5, <1>6, <2>1, Zenon
<1>7. CASE pathIndex # 0
  <2>1. Value(WritePathHello(Hello)[1]) = StreamKindPath
    BY <1>1, HelloFields
  <2> QED BY <1>2, <1>4, <1>5, <1>7, <2>1, Zenon
<1> QED BY <1>6, <1>7

\* The last field of a message: the stream kind leads to the reader of the
\* preamble that was sent, a preamble to the chunks, a chunk to the next one.
LEMMA MessageRead ==
    ASSUME ClientInv, WriterInv, ReaderInv, StreamInv, NEW now,
           Decoded(now, Fields, Script, Before, Len(Fields)),
           Completed(now), rpc = "read", UNCHANGED <<opt, pathIndex, placed, cpc>>
    PROVE  ReaderInv' /\ Before' = Before + Len(Fields) /\ Count' = 0
<1>1. WritePreamble' = WritePreamble
  BY DEF WritePreamble, WriteControlHeader, WritePathHello, Control, Hello
<1>2. Head0' = Head0 /\ Script' = Script /\ PreambleFields' = PreambleFields
  BY <1>1 DEF Head0, Script, PreambleFields
<1>3. got' = << >> /\ Count' = 0
  <2>1. got' = << >>
    BY CompletedCases, Zenon
  <2>2. DOMAIN << >> = {} /\ Cardinality({}) = 0
    BY FS_EmptySet
  <2> QED BY <2>1, <2>2 DEF Count
<1>4. opt \in Transfers /\ pathIndex \in PathIndexes /\ pathIndex' = pathIndex
  BY DEF ClientInv
<1>5. /\ Head0 = IF pathIndex = 0 THEN 7 ELSE 3
      /\ Head0 \in Nat
      /\ pathIndex = 0 => WritePreamble = WriteControlHeader(Control)
      /\ pathIndex # 0 => WritePreamble = WritePathHello(Hello)
  BY <1>4, PreambleFacts, Zenon
<1>6. \A j \in 1..Head0 : Script[j] = WritePreamble[j]
  BY ScriptFacts, Zenon
<1>7. ASSUME Len(Fields') \in Nat \ {0}
      PROVE  \E n \in 0..(Len(Fields') - 1) : Decoded(got', Fields', Script', Before', n)
  <2>1. 0 \in 0..(Len(Fields') - 1)
    BY <1>7
  <2>2. Decoded(<< >>, Fields', Script', Before', 0)
    BY DecodedNothing
  <2> QED BY <1>3, <2>1, <2>2, Zenon
<1>8. CASE reading = "kind"
  <2>1. /\ reading' = IF now.kind = StreamKindControl THEN "control" ELSE "hello"
        /\ rpc' # "eof" /\ preamble' = preamble /\ frames' = frames
    BY <1>8, CompletedCases
  <2>2. preamble = << >> /\ frames = << >>
    BY <1>8 DEF ReaderInv
  <2>3. Fields = ReadStreamKind /\ Before = 0 /\ Len(Fields) = 1
    BY <1>8, FieldsRead, Names DEF Before
  <2>4. now["kind"] = IF pathIndex = 0 THEN StreamKindControl ELSE StreamKindPath
    BY <1>8, KindRead
  <2>5. StreamKindControl # StreamKindPath
    BY DEF StreamKindControl, StreamKindPath
  <2>6. \/ pathIndex = 0 /\ reading' = "control"
        \/ pathIndex # 0 /\ reading' = "hello"
    BY <2>1, <2>4, <2>5, Zenon
  <2>7. Len(Fields') \in Nat \ {0}
    <3>1. Fields' = ReadControlHeader \/ Fields' = ReadPathHello
      BY <2>6, FieldsReadNext, Zenon
    <3>2. Len(ReadControlHeader) \in Nat \ {0} /\ Len(ReadPathHello) \in Nat \ {0}
      BY Names
    <3> QED BY <3>1, <3>2, Zenon
  <2>8. Before' = 1
    BY <2>6 DEF Before
  <2>9. ReaderInv'
    <3>1. /\ reading' \in {"kind", "control", "hello", "chunk"}
          /\ reading' = "control" => pathIndex' = 0
          /\ reading' = "hello" => pathIndex' # 0
          /\ reading' # "chunk"
      BY <1>4, <2>6
    <3>2. \A i : i \notin 1..Len(frames')
      BY <2>1, <2>2
    <3>3. \E S : frames' \in Seq(S)
      <4>1. frames' \in Seq({})
        BY <2>1, <2>2
      <4> QED BY <4>1
    <3> QED BY <1>7, <2>1, <2>2, <2>7, <3>1, <3>2, <3>3, Zenon DEF ReaderInv
  <2> QED BY <1>3, <2>3, <2>8, <2>9
<1>9. CASE reading \in {"control", "hello"}
  <2>1. preamble' = now /\ reading' = "chunk" /\ rpc' # "eof" /\ frames' = frames
    BY <1>9, CompletedCases
  <2>2. Before = 1 /\ frames = << >>
    BY <1>9 DEF ReaderInv, Before
  <2>3. /\ Fields = PreambleFields
        /\ (pathIndex = 0 /\ Len(Fields) = 6) \/ (pathIndex # 0 /\ Len(Fields) = 2)
    <3>1. CASE reading = "control"
      BY <3>1, FieldsRead, Names DEF ReaderInv, PreambleFields
    <3>2. CASE reading = "hello"
      BY <3>2, FieldsRead, Names DEF ReaderInv, PreambleFields
    <3> QED BY <1>9, <3>1, <3>2
  <2>4. Decoded(preamble', PreambleFields', Script', 1, Len(PreambleFields'))
    BY <1>2, <2>1, <2>2, <2>3, Zenon
  <2>5. Len(Fields') \in Nat \ {0}
    <3>1. Fields' = ReadChunk
      BY <2>1, FieldsReadNext, Zenon
    <3>2. Len(ReadChunk) \in Nat \ {0}
      BY Names
    <3> QED BY <3>1, <3>2, Zenon
  <2>6. Before' = Before + Len(Fields)
    <3>1. Before' = Head0 + 7 * 0
      BY <1>2, <2>1, <2>2 DEF Before
    <3>2. \/ Head0 = 7 /\ Len(Fields) = 6
          \/ Head0 = 3 /\ Len(Fields) = 2
      BY <1>5, <2>3, Zenon
    <3>3. PICK h \in Nat, l \in Nat : h = Head0 /\ l = Len(Fields) /\ h + 7 * 0 = 1 + l
      <4>1. CASE Head0 = 7 /\ Len(Fields) = 6
        <5>1. 7 \in Nat /\ 6 \in Nat /\ 7 + 7 * 0 = 1 + 6
          OBVIOUS
        <5> QED BY <4>1, <5>1, Zenon
      <4>2. CASE Head0 = 3 /\ Len(Fields) = 2
        <5>1. 3 \in Nat /\ 2 \in Nat /\ 3 + 7 * 0 = 1 + 2
          OBVIOUS
        <5> QED BY <4>2, <5>1, Zenon
      <4> QED BY <3>2, <4>1, <4>2
    <3> QED BY <2>2, <3>1, <3>3, Zenon
  <2>7. ReaderInv'
    <3>1. /\ reading' \in {"kind", "control", "hello", "chunk"}
          /\ reading' # "control" /\ reading' # "hello" /\ reading' = "chunk"
      BY <2>1
    <3>2. \A i : i \notin 1..Len(frames')
      BY <2>1, <2>2
    <3>3. \E S : frames' \in Seq(S)
      <4>1. frames' \in Seq({})
        BY <2>1, <2>2
      <4> QED BY <4>1
    <3> QED BY <1>7, <2>1, <2>4, <2>5, <3>1, <3>2, <3>3, Zenon DEF ReaderInv
  <2> QED BY <1>3, <2>6, <2>7
<1>10. CASE reading = "chunk"
  <2>1. /\ frames' = Append(frames, now) /\ rpc' = "read" /\ reading' = "chunk"
        /\ preamble' = preamble
    BY <1>10, CompletedCases
  <2>2. Fields = ReadChunk /\ Before = Head0 + 7 * Len(frames) /\ Len(Fields) = 7
    BY <1>10, FieldsRead, Names DEF Before
  <2>3. PICK S : frames \in Seq(S)
    BY DEF ReaderInv
  <2>4. PICK T : T = S \cup {now}
    OBVIOUS
  <2>5. /\ Len(frames) \in Nat /\ Len(frames') = Len(frames) + 1
        /\ frames'[Len(frames) + 1] = now
        /\ \A i \in 1..Len(frames) : frames'[i] = frames[i]
    BY <2>1, <2>3
  <2>6. frames' \in Seq(T)
    <3>1. PICK n \in Nat : n = Len(frames)
      BY <2>5
    <3>2. frames = [i \in 1..n |-> frames[i]] /\ \A i \in 1..n : frames[i] \in S
      BY <2>3, <3>1
    <3>3. frames \in [1..n -> T] /\ now \in T
      BY <2>4, <3>2, Zenon
    <3>4. frames \in Seq(T) /\ now \in T
      BY <3>3
    <3> QED BY <2>1, <3>4
  <2>7. ASSUME NEW i \in 1..Len(frames')
        PROVE  Decoded(frames'[i], ReadChunk, Script', Head0' + 7 * (i - 1), 7)
    <3>1. CASE i \in 1..Len(frames)
      <4>1. Decoded(frames[i], ReadChunk, Script, Head0 + 7 * (i - 1), 7)
        BY <3>1 DEF ReaderInv
      <4> QED BY <1>2, <2>5, <3>1, <4>1, Zenon
    <3>2. CASE i = Len(frames) + 1
      <4>1. Head0 + 7 * (i - 1) = Before
        BY <1>5, <2>2, <2>5, <3>2
      <4>2. Decoded(now, ReadChunk, Script, Before, 7)
        BY <2>2, Zenon
      <4> QED BY <1>2, <2>5, <3>2, <4>1, <4>2, Zenon
    <3> QED BY <2>5, <3>1, <3>2
  <2>8. Len(Fields') \in Nat \ {0}
    <3>1. Fields' = ReadChunk
      BY <2>1, FieldsReadNext, Zenon
    <3>2. Len(ReadChunk) \in Nat \ {0}
      BY Names
    <3> QED BY <3>1, <3>2, Zenon
  <2>9. Before' = Before + Len(Fields)
    <3>1. Before' = Head0 + 7 * Len(frames')
      BY <1>2, <2>1 DEF Before
    <3> QED BY <1>5, <2>2, <2>5, <3>1
  <2>10. Decoded(preamble', PreambleFields', Script', 1, Len(PreambleFields'))
    <3>1. Decoded(preamble, PreambleFields, Script, 1, Len(PreambleFields))
      BY <1>10 DEF ReaderInv
    <3> QED BY <1>2, <2>1, <3>1, Zenon
  <2>11. ReaderInv'
    <3>1. /\ reading' \in {"kind", "control", "hello", "chunk"}
          /\ reading' # "control" /\ reading' # "hello" /\ reading' = "chunk"
          /\ rpc' # "eof"
      BY <2>1
    <3>2. \E U : frames' \in Seq(U)
      BY <2>6
    <3> QED BY <1>7, <2>7, <2>8, <2>10, <3>1, <3>2, Zenon DEF ReaderInv
  <2> QED BY <1>3, <2>9, <2>11
<1> QED BY <1>8, <1>9, <1>10 DEF ReaderInv

\* io.ReadFull of one field takes exactly the next field that was written.
LEMMA OneFieldRead ==
    ASSUME ClientInv, WriterInv, ReaderInv, StreamInv, ReadField
    PROVE  \E n \in Nat : \E now :
              /\ n = Count /\ n < Len(Fields)
              /\ Decoded(now, Fields, Script, Before, n + 1)
              /\ stream' \in Seq(Nat) /\ Cut(stream', Script, Before + n + 1, Written)
              /\ IF n + 1 = Len(Fields) THEN Completed(now)
                 ELSE got' = now /\ UNCHANGED <<rpc, reading, preamble, frames>>
<1>1. /\ rpc = "read" /\ Len(stream) >= Needed
      /\ stream' = SubSeq(stream, Needed + 1, Len(stream))
  BY DEF ReadField
<1>5. PICK n \in Nat :
         /\ n = Count /\ n < Len(Fields) /\ Decoded(got, Fields, Script, Before, n)
         /\ Before + n <= Written
  BY ReaderFacts
<1>6. /\ Len(Fields) \in Nat /\ Distinct(Fields) /\ Before \in Nat
      /\ Written \in Nat /\ Written <= Total
  BY ReaderFacts, Zenon
<1>7. Total \in Nat /\ \A j \in 1..Total : IsField(Script[j])
  BY ScriptFacts, Zenon
<1>8. PICK r \in Nat, w \in Nat :
         r = Before + Count /\ w = Written
  <2>1. Before + Count \in Nat
    BY <1>5, <1>6
  <2> QED BY <1>6, <2>1, Zenon
<1>8s. PICK s, F : s = stream /\ F = Script
  OBVIOUS
<1>9. s \in Seq(Nat) /\ Cut(s, F, r, w)
  BY <1>8, <1>8s DEF StreamInv
<1>10. Needed \in Nat \ {0}
  BY NextWidth
<1>11. r < w
  <2>1. r <= w
    BY <1>5, <1>8, <1>8s
  <2>2. r # w
    <3>1. Len(s) # 0
      BY <1>1, <1>8, <1>8s, <1>9, <1>10
    <3> QED BY <1>9, <3>1, CutNothing
  <2> QED BY <2>1, <2>2
<1>12. Needed = Len(F[r + 1])
  <2>1. r < Total
    BY <1>6, <1>7, <1>8, <1>8s, <1>11
  <2> QED BY <1>8, <1>8s, <2>1, NextWidth, Zenon
<1>13. PICK m \in Nat :
          /\ m = Len(F[r + 1]) /\ SubSeq(s, 1, m) = F[r + 1]
          /\ SubSeq(s, m + 1, Len(s)) \in Seq(Nat)
          /\ Cut(SubSeq(s, m + 1, Len(s)), F, r + 1, w)
  <2>1. \A i \in (r + 1)..w : IsField(F[i])
    <3>1. \A i \in (r + 1)..w : i \in 1..Total
      BY <1>6, <1>7, <1>8, <1>8s
    <3> QED BY <1>7, <1>8, <1>8s, <3>1, Zenon
  <2> QED BY <1>9, <1>11, <2>1, CutShrinks
<1>14. stream' \in Seq(Nat) /\ Cut(stream', F, r + 1, w)
  BY <1>1, <1>8, <1>8s, <1>12, <1>13, Zenon
<1>15. PICK name, bytes : name = Field /\ bytes = SubSeq(stream, 1, Needed)
  OBVIOUS
<1>16. name = Fields[n + 1] /\ bytes = F[r + 1]
  BY <1>5, <1>8, <1>8s, <1>12, <1>13, <1>15 DEF Field, Count
<1>17. PICK now :
          now = [f \in DOMAIN got \cup {name} |->
                    IF f = name THEN Decode(f, bytes) ELSE got[f]]
  OBVIOUS
<1>18. Decoded(now, Fields, Script, Before, n + 1)
  <2>1. PICK N, from : N = Fields /\ from = Before
    OBVIOUS
  <2>2. Len(N) \in Nat /\ Distinct(N) /\ n < Len(N) /\ from \in Nat
    BY <1>5, <1>6, <2>1
  <2>3. Decoded(got, N, F, from, n)
    BY <1>5, <1>8, <1>8s, <2>1
  <2>4. name = N[n + 1]
    BY <1>16, <2>1
  <2>5. bytes = F[from + n + 1]
    <3>1. r + 1 = from + n + 1
      BY <1>5, <1>8, <1>8s, <2>1
    <3> QED BY <1>16, <3>1
  <2>6. Decoded(now, N, F, from, n + 1)
    <3>1. Decoded(Extended(got, N[n + 1], F[from + n + 1]), N, F, from, n + 1)
      BY <2>2, <2>3, DecodedNext
    <3>2. now = Extended(got, name, bytes)
      BY <1>17, Zenon DEF Extended
    <3> QED BY <2>4, <2>5, <3>1, <3>2, Zenon
  <2> QED BY <1>8, <1>8s, <2>1, <2>6
<1>19. IF Field = Fields[Len(Fields)]
       THEN Completed(now)
       ELSE got' = now /\ UNCHANGED <<rpc, reading, preamble, frames>>
  BY <1>15, <1>17, Zenon DEF ReadField
<1>20. IF n + 1 = Len(Fields) THEN Completed(now)
       ELSE got' = now /\ UNCHANGED <<rpc, reading, preamble, frames>>
  <2>1. n + 1 \in 1..Len(Fields) /\ Len(Fields) \in 1..Len(Fields)
    BY <1>5, <1>6
  <2>2. Field = Fields[Len(Fields)] <=> n + 1 = Len(Fields)
    BY <1>6, <1>15, <1>16, <2>1, Zenon DEF Distinct
  <2> QED BY <1>19, <2>2, Zenon
<1>21. Cut(stream', Script, Before + n + 1, Written)
  <2>1. r + 1 = Before + n + 1
    BY <1>5, <1>6, <1>8, <1>8s
  <2> QED BY <1>8, <1>8s, <1>14, <2>1, Zenon
<1> QED BY <1>5, <1>14, <1>18, <1>20, <1>21, Zenon

\* Reading a field keeps the invariant.
LEMMA FieldIsRead ==
    ASSUME ClientInv, WriterInv, ReaderInv, StreamInv, ReadField, UNCHANGED wvars
    PROVE  WriterInv' /\ ReaderInv' /\ StreamInv'
<1>1. UNCHANGED <<opt, pathIndex, cpc, placed, pending>> /\ rpc = "read"
  BY DEF ReadField, wvars
<1>2. WritePreamble' = WritePreamble
  BY <1>1 DEF WritePreamble, WriteControlHeader, WritePathHello, Control, Hello
<1>3. /\ Head0' = Head0 /\ Total' = Total /\ Script' = Script /\ Written' = Written
      /\ PreambleFields' = PreambleFields
  BY <1>1, <1>2 DEF Head0, Total, Script, Written, PreambleFields
<1>4. WriterInv'
  BY <1>1, <1>3 DEF WriterInv
<1>n. PICK n \in Nat :
         \E now :
            /\ n = Count /\ n < Len(Fields)
            /\ Decoded(now, Fields, Script, Before, n + 1)
            /\ stream' \in Seq(Nat) /\ Cut(stream', Script, Before + n + 1, Written)
            /\ IF n + 1 = Len(Fields) THEN Completed(now)
               ELSE got' = now /\ UNCHANGED <<rpc, reading, preamble, frames>>
  BY OneFieldRead
<1>5. PICK now :
         /\ n = Count /\ n < Len(Fields)
         /\ Decoded(now, Fields, Script, Before, n + 1)
         /\ stream' \in Seq(Nat) /\ Cut(stream', Script, Before + n + 1, Written)
         /\ IF n + 1 = Len(Fields) THEN Completed(now)
            ELSE got' = now /\ UNCHANGED <<rpc, reading, preamble, frames>>
  BY <1>n
<1>6. Len(Fields) \in Nat /\ Distinct(Fields) /\ Before \in Nat
  BY ReaderFacts, Zenon
<1>7. ASSUME Before' + Count' = Before + n + 1 PROVE StreamInv'
  BY <1>3, <1>5, <1>7, Zenon DEF StreamInv
<1>8. CASE n + 1 = Len(Fields)
  <2>1. Completed(now) /\ Decoded(now, Fields, Script, Before, Len(Fields))
    BY <1>5, <1>8, Zenon
  <2>2. ReaderInv' /\ Before' = Before + Len(Fields) /\ Count' = 0
    BY <1>1, <2>1, MessageRead
  <2>3. Before' + Count' = Before + n + 1
    BY <1>6, <1>8, <2>2
  <2> QED BY <1>4, <1>7, <2>2, <2>3
<1>9. CASE n + 1 # Len(Fields)
  <2>1. n + 1 \in 0..(Len(Fields) - 1) /\ n + 1 \in 0..Len(Fields)
    BY <1>5, <1>6, <1>9
  <2>2. got' = now /\ UNCHANGED <<rpc, reading, preamble, frames>>
    BY <1>5, <1>9, Zenon
  <2>3. Fields' = Fields
    BY <2>2, Zenon DEF Fields
  <2>4. Before' = Before
    BY <1>3, <2>2 DEF Before
  <2>5. Count' = n + 1
    <3>1. PICK N, F, k, from : N = Fields /\ F = Script /\ k = n + 1 /\ from = Before
      OBVIOUS
    <3>2. Len(N) \in Nat /\ Distinct(N) /\ k \in 0..Len(N)
      BY <1>6, <2>1, <3>1
    <3>3. Decoded(now, N, F, from, k)
      BY <1>5, <3>1
    <3>4. Cardinality(DOMAIN now) = k
      BY <3>2, <3>3, DecodedCount
    <3> QED BY <2>2, <3>1, <3>4 DEF Count
  <2>6. ReaderInv'
    <3>1. \E m \in 0..(Len(Fields') - 1) : Decoded(got', Fields', Script', Before', m)
      BY <1>3, <1>5, <2>1, <2>2, <2>3, <2>4, Zenon
    <3>2. rpc' # "eof"
      BY <1>1, <2>2
    <3> QED BY <1>1, <1>3, <2>2, <3>1, <3>2, Zenon DEF ReaderInv
  <2>7. Before' + Count' = Before + n + 1
    BY <1>5, <1>6, <2>4, <2>5
  <2> QED BY <1>4, <1>7, <2>6, <2>7
<1> QED BY <1>8, <1>9

-----------------------------------------------------------------------------
\* The invariant.

\* It holds before the first step: the whole preamble is to be written.
LEMMA PathStreamInit ==
    ASSUME Init
    PROVE  PathStreamInv
<1>1. /\ opt \in Transfers /\ pathIndex \in PathIndexes
      /\ cpc = "split" /\ burst = 1 /\ offset = 0 /\ chunks = << >> /\ next = 0
      /\ pending = WritePreamble /\ placed = << >>
      /\ rpc = "read" /\ reading = "kind" /\ got = << >>
      /\ preamble = << >> /\ frames = << >> /\ stream = << >> /\ fin = FALSE
  BY DEF Init
<1>2. Len(<< >>) = 0 /\ << >> \in Seq({}) /\ \A i : i \notin 1..Len(<< >>)
  OBVIOUS
<1>3. ClientInv
  <2>1. burst \in 1..Len(opt.sizes)
    <3>1. Len(opt.sizes) \in Nat /\ 1 <= Len(opt.sizes)
      <4>1. Len(opt.sizes) \in 1..(Room[W64] - 1)
        BY <1>1, PathStreamAssumption
      <4> QED BY <4>1
    <3> QED BY <1>1, <3>1
  <2>2. SplitSize \in Nat
    BY <1>1, <2>1, SplitSizes
  <2>3. PICK z \in Nat : z = SplitSize
    BY <2>2
  <2>4. 0 * z = 0 /\ 0 \in 0..0
    OBVIOUS
  <2>5. offset = Len(chunks) * SplitSize /\ next \in 0..Len(chunks)
    BY <1>1, <1>2, <2>3, <2>4, Zenon
  <2>6. (\E S : chunks \in Seq(S)) /\ \A i : i \notin 1..Len(chunks)
    BY <1>1, <1>2, Zenon
  <2>7. cpc \notin {"send", "closed"} /\ ~fin
    BY <1>1
  <2> QED BY <1>1, <2>1, <2>5, <2>6, <2>7 DEF ClientInv
<1>4. Head0 \in Nat /\ WritePreamble = [j \in 1..Head0 |-> WritePreamble[j]]
  BY <1>1, PreambleFacts, Zenon
<1>5. Len(placed) = 0 /\ Total = Head0
  BY <1>1, <1>2, <1>4 DEF Total
<1>6. WriterInv
  <2>1. PICK pre, pl : pre = WritePreamble /\ pl = placed
    OBVIOUS
  <2>2. Len(pre) = Head0 /\ Len(pre) \in Nat /\ Len(pl) \in Nat /\ Script = ScriptOf(pre, pl)
    BY <1>4, <1>5, <2>1 DEF Head0, Script
  <2>3. ASSUME NEW k \in 1..Head0 PROVE Script[Total - Head0 + k] = WritePreamble[k]
    <3>1. Total - Head0 + k = k
      BY <1>4, <1>5
    <3>2. k \in 1..Len(pre)
      BY <2>2
    <3>3. ScriptOf(pre, pl)[k] = pre[k]
      BY <2>2, <3>2, ScriptHead
    <3> QED BY <2>1, <2>2, <3>1, <3>3, Zenon
  <2>4. pending = [k \in 1..Head0 |-> Script[Total - Head0 + k]]
    BY <1>1, <1>4, <2>3, Zenon
  <2>5. Head0 \in 0..Total
    BY <1>4, <1>5
  <2>6. (\E S : placed \in Seq(S)) /\ \A i : i \notin 1..Len(placed)
    BY <1>1, <1>2, Zenon
  <2>7. cpc # "closed"
    BY <1>1
  <2> QED BY <2>4, <2>5, <2>6, <2>7, Zenon DEF WriterInv
<1>7. Fields = ReadStreamKind /\ Len(ReadStreamKind) = 1
  BY <1>1, FieldsRead, Names
<1>8. Before = 0 /\ Count = 0
  <2>1. DOMAIN << >> = {} /\ Cardinality({}) = 0
    BY FS_EmptySet
  <2> QED BY <1>1, <2>1 DEF Before, Count
<1>9. ReaderInv
  <2>1. 0 \in 0..(Len(Fields) - 1)
    BY <1>7
  <2>2. Decoded(<< >>, Fields, Script, Before, 0)
    BY DecodedNothing
  <2>3. \E n \in 0..(Len(Fields) - 1) : Decoded(got, Fields, Script, Before, n)
    BY <1>1, <2>1, <2>2, Zenon
  <2>4. (\E S : frames \in Seq(S)) /\ \A i : i \notin 1..Len(frames)
    BY <1>1, <1>2, Zenon
  <2>5. /\ reading \in {"kind", "control", "hello", "chunk"} /\ reading # "control"
        /\ reading # "hello" /\ reading # "chunk" /\ rpc # "eof"
    BY <1>1
  <2> QED BY <1>1, <2>3, <2>4, <2>5, Zenon DEF ReaderInv
<1>10. StreamInv
  <2>1. Written = 0
    BY <1>1, <1>4, <1>5 DEF Written, Head0
  <2>2. Cut(<< >>, Script, 0, 0) /\ 0 + 0 = 0
    BY CutNothing
  <2>3. stream \in Seq(Nat)
    BY <1>1
  <2> QED BY <1>1, <1>8, <2>1, <2>2, <2>3 DEF StreamInv
<1> QED BY <1>3, <1>6, <1>9, <1>10 DEF PathStreamInv

\* Every step keeps it.
LEMMA PathStreamNext ==
    ASSUME PathStreamInv, [Next]_pvars
    PROVE  PathStreamInv'
<1>1. ClientInv /\ WriterInv /\ ReaderInv /\ StreamInv
  BY DEF PathStreamInv
<1>2. ClientInv'
  BY <1>1, ClientKept
<1>3. ASSUME ClientStep, UNCHANGED <<hvars, up>> PROVE WriterInv' /\ ReaderInv' /\ StreamInv'
  <2>1. UNCHANGED <<rpc, reading, got, preamble, frames>>
    BY <1>3 DEF hvars
  <2>2. CASE SplitStep \/ SplitRunsOut \/ SplitDone \/ NextBurst
    <3>1. /\ UNCHANGED <<opt, pathIndex, placed, pending, stream>>
          /\ cpc' # "closed" /\ cpc # "closed"
      BY <2>2 DEF SplitStep, SplitRunsOut, SplitDone, NextBurst, tvars
    <3> QED BY <1>1, <2>1, <3>1, Quiet
  <2>3. CASE CloseStream
    <3>1. /\ UNCHANGED <<opt, pathIndex, placed, pending, stream>>
          /\ cpc' = "closed" /\ pending = << >>
      BY <2>3 DEF CloseStream
    <3> QED BY <1>1, <2>1, <3>1, Quiet
  <2>4. CASE WriteField
    BY <1>1, <1>3, <2>4, FieldWritten
  <2>5. CASE PlaceChunk(TRUE)
    <3>1. UNCHANGED <<hvars, stream>>
      BY <1>3, <2>5 DEF PlaceChunk, tvars
    <3> QED BY <1>1, <2>5, <3>1, ChunkPlaced
  <2>6. CASE PlaceChunk(FALSE)
    <3>1. /\ UNCHANGED <<opt, pathIndex, placed, stream, cpc>>
          /\ pending = << >> /\ pending' = << >> /\ cpc # "closed"
      BY <2>6 DEF PlaceChunk, tvars
    <3> QED BY <1>1, <2>1, <3>1, Quiet
  <2>7. ASSUME NEW here \in BOOLEAN, PlaceChunk(here) PROVE PlaceChunk(TRUE) \/ PlaceChunk(FALSE)
    <3>1. here = TRUE \/ here = FALSE
      OBVIOUS
    <3> QED BY <2>7, <3>1, Zenon
  <2> QED BY <1>3, <2>2, <2>3, <2>4, <2>5, <2>6, <2>7, Zenon DEF ClientStep
<1>4. ASSUME ReadField \/ ReadEnds, UNCHANGED wvars PROVE WriterInv' /\ ReaderInv' /\ StreamInv'
  BY <1>1, <1>4, FieldIsRead, StreamEnded
<1>5. CASE ConnectionDies
  <2>1. /\ UNCHANGED <<opt, pathIndex, placed, pending, reading, got, preamble, frames, stream, cpc>>
        /\ rpc' = IF rpc = "read" THEN "error" ELSE rpc
    BY <1>5 DEF ConnectionDies, wvars, tvars
  <2>2. rpc' = "eof" => rpc = "eof"
    BY <2>1
  <2>3. cpc' = "closed" => pending = << >>
    BY <1>1, <2>1 DEF WriterInv
  <2>4. WriterInv' /\ ReaderInv' /\ StreamInv'
    BY <1>1, <2>1, <2>2, <2>3, Quiet
  <2> QED BY <1>2, <2>4 DEF PathStreamInv
<1>6. CASE UNCHANGED pvars
  <2>1. UNCHANGED <<opt, pathIndex, placed, pending, reading, got, preamble, frames, stream, cpc, rpc>>
    BY <1>6 DEF pvars, wvars, hvars, tvars
  <2>2. cpc' = "closed" => pending = << >>
    BY <1>1, <2>1 DEF WriterInv
  <2>3. WriterInv' /\ ReaderInv' /\ StreamInv'
    BY <1>1, <2>1, <2>2, Quiet
  <2> QED BY <1>2, <2>3 DEF PathStreamInv
<1>7. CASE WriterInv' /\ ReaderInv' /\ StreamInv'
  BY <1>2, <1>7 DEF PathStreamInv
<1> QED BY <1>3, <1>4, <1>5, <1>6, <1>7, Zenon DEF Next

\* What is in flight is always the fields from the last one read to the last
\* one written, and every message read was decoded from its own fields.
THEOREM PathStreamInvariant == Spec => []PathStreamInv
<1>1. Init => PathStreamInv
  BY PathStreamInit
<1>2. PathStreamInv /\ [Next]_pvars => PathStreamInv'
  BY PathStreamNext
<1> QED BY <1>1, <1>2, PTL DEF Spec

-----------------------------------------------------------------------------
\* What the invariant gives.

\* A frame that was read is the chunk that was placed.
LEMMA FrameRead ==
    ASSUME NEW c, FitsWire(c), NEW F, NEW from,
           \A k \in 1..7 : F[from + k] = WriteChunk(c)[k],
           NEW g, Decoded(g, ReadChunk, F, from, 7)
    PROVE  Same(g, c) /\ VerifyChecksum(g)
<1>1. PICK W : W = WriteChunk(c)
  OBVIOUS
<1>2. /\ Value(W[1]) = c.seq /\ Value(W[2]) = c.offset /\ Value(W[3]) = c.burstID
      /\ Value(W[4]) = c.burstBytes /\ Value(W[6]) = ChecksumIEEE(c.data)
      /\ W[7] = c.data
  BY <1>1, ChunkFields
<1>3. \A k \in 1..7 : g[ReadChunk[k]] = Decode(ReadChunk[k], W[k])
  BY <1>1, Zenon DEF Decoded
<1>4. /\ ReadChunk[1] = "seq" /\ ReadChunk[2] = "offset" /\ ReadChunk[3] = "burstID"
      /\ ReadChunk[4] = "burstBytes" /\ ReadChunk[6] = "checksum" /\ ReadChunk[7] = "data"
  BY DEF ReadChunk
<1>5. 1 \in 1..7 /\ 2 \in 1..7 /\ 3 \in 1..7 /\ 4 \in 1..7 /\ 6 \in 1..7 /\ 7 \in 1..7
  OBVIOUS
<1>6. /\ g["seq"] = Decode("seq", W[1]) /\ g["offset"] = Decode("offset", W[2])
      /\ g["burstID"] = Decode("burstID", W[3])
      /\ g["burstBytes"] = Decode("burstBytes", W[4])
      /\ g["checksum"] = Decode("checksum", W[6]) /\ g["data"] = Decode("data", W[7])
  BY <1>3, <1>4, <1>5, Zenon
<1>7. /\ g["seq"] = c.seq /\ g["offset"] = c.offset /\ g["burstID"] = c.burstID
      /\ g["burstBytes"] = c.burstBytes /\ g["checksum"] = ChecksumIEEE(c.data)
      /\ g["data"] = c.data
  BY <1>2, <1>6 DEF Decode
<1> QED BY <1>7, Zenon DEF Same, VerifyChecksum

\* A control header that was read is the one that was announced.
LEMMA ControlRead ==
    ASSUME opt \in Transfers, pathIndex \in PathIndexes, NEW F,
           \A k \in 1..7 : F[k] = WriteControlHeader(Control)[k],
           NEW g, Decoded(g, ReadControlHeader, F, 1, 6)
    PROVE  /\ g.totalSize = Control.totalSize
           /\ \A k \in DOMAIN Control : g[k] = Control[k]
<1>1. PICK W : W = WriteControlHeader(Control)
  OBVIOUS
<1>2. /\ Value(W[2]) = Control.sessionID /\ Value(W[3]) = Control.totalSize
      /\ Value(W[4]) = Control.chunkSize /\ Value(W[5]) = Control.numPaths
      /\ W[7] = Control.scheduler
  BY <1>1, ControlFields
<1>3. ASSUME NEW k \in 1..6
      PROVE  g[ReadControlHeader[k]] = Decode(ReadControlHeader[k], W[1 + k])
  <2>1. 1 + k \in 1..7
    OBVIOUS
  <2>2. F[1 + k] = W[1 + k]
    BY <1>1, <2>1
  <2>3. g[ReadControlHeader[k]] = Decode(ReadControlHeader[k], F[1 + k])
    BY Zenon DEF Decoded
  <2> QED BY <2>2, <2>3, Zenon
<1>4. /\ ReadControlHeader[1] = "sessionID" /\ ReadControlHeader[2] = "totalSize"
      /\ ReadControlHeader[3] = "chunkSize" /\ ReadControlHeader[4] = "numPaths"
      /\ ReadControlHeader[6] = "scheduler"
  BY DEF ReadControlHeader
<1>5. /\ 1 \in 1..6 /\ 2 \in 1..6 /\ 3 \in 1..6 /\ 4 \in 1..6 /\ 6 \in 1..6
      /\ 1 + 1 = 2 /\ 1 + 2 = 3 /\ 1 + 3 = 4 /\ 1 + 4 = 5 /\ 1 + 6 = 7
  OBVIOUS
<1>6. /\ g["sessionID"] = Decode("sessionID", W[2])
      /\ g["totalSize"] = Decode("totalSize", W[3])
      /\ g["chunkSize"] = Decode("chunkSize", W[4])
      /\ g["numPaths"] = Decode("numPaths", W[5])
      /\ g["scheduler"] = Decode("scheduler", W[7])
  BY <1>3, <1>4, <1>5, Zenon
<1>7. /\ g["sessionID"] = Control.sessionID /\ g["totalSize"] = Control.totalSize
      /\ g["chunkSize"] = Control.chunkSize /\ g["numPaths"] = Control.numPaths
      /\ g["scheduler"] = Control.scheduler
  BY <1>2, <1>6 DEF Decode
<1>8. DOMAIN Control = {"sessionID", "totalSize", "chunkSize", "numPaths", "scheduler"}
  BY DEF Control
<1> QED BY <1>7, <1>8, Zenon

\* A hello that was read is the one that was sent.
LEMMA HelloRead ==
    ASSUME opt \in Transfers, pathIndex \in PathIndexes, NEW F,
           \A k \in 1..3 : F[k] = WritePathHello(Hello)[k],
           NEW g, Decoded(g, ReadPathHello, F, 1, 2)
    PROVE  g = Hello
<1>1. PICK W : W = WritePathHello(Hello)
  OBVIOUS
<1>2. Value(W[2]) = Hello.sessionID /\ Value(W[3]) = Hello.pathIndex
  BY <1>1, HelloFields
<1>3. ASSUME NEW k \in 1..2
      PROVE  g[ReadPathHello[k]] = Decode(ReadPathHello[k], W[1 + k])
  <2>1. 1 + k \in 1..3
    OBVIOUS
  <2>2. F[1 + k] = W[1 + k]
    BY <1>1, <2>1
  <2>3. g[ReadPathHello[k]] = Decode(ReadPathHello[k], F[1 + k])
    BY Zenon DEF Decoded
  <2> QED BY <2>2, <2>3, Zenon
<1>4. ReadPathHello[1] = "sessionID" /\ ReadPathHello[2] = "pathIndex"
  BY DEF ReadPathHello
<1>5. 1 \in 1..2 /\ 2 \in 1..2 /\ 1 + 1 = 2 /\ 1 + 2 = 3 /\ \A i \in 1..2 : i = 1 \/ i = 2
  OBVIOUS
<1>6. g["sessionID"] = Decode("sessionID", W[2]) /\ g["pathIndex"] = Decode("pathIndex", W[3])
  BY <1>3, <1>4, <1>5, Zenon
<1>7. g["sessionID"] = Hello.sessionID /\ g["pathIndex"] = Hello.pathIndex
  BY <1>2, <1>6 DEF Decode
<1>8. DOMAIN g = {"sessionID", "pathIndex"} /\ g = [f \in DOMAIN g |-> g[f]]
  <2>1. /\ DOMAIN g = {ReadPathHello[i] : i \in 1..2}
        /\ g = [f \in DOMAIN g |-> g[f]]
    BY Zenon DEF Decoded
  <2>2. {ReadPathHello[i] : i \in 1..2} = {ReadPathHello[1], ReadPathHello[2]}
    BY <1>5, Zenon
  <2>3. {ReadPathHello[1], ReadPathHello[2]} = {"sessionID", "pathIndex"}
    BY <1>4
  <2>4. DOMAIN g = {"sessionID", "pathIndex"}
    BY <2>1, <2>2, <2>3
  <2> QED BY <2>1, <2>4
<1>9. /\ Hello = [f \in {"sessionID", "pathIndex"} |-> Hello[f]]
  BY DEF Hello
<1>10. \A f \in {"sessionID", "pathIndex"} : g[f] = Hello[f]
  BY <1>7, Zenon
<1> QED BY <1>8, <1>9, <1>10, Zenon

\* The preamble, once read, is the one sent on this path.
LEMMA PreambleRead ==
    ASSUME PathStreamInv, reading = "chunk"
    PROVE  /\ pathIndex = 0 => /\ preamble.totalSize = Control.totalSize
                               /\ \A k \in DOMAIN Control : preamble[k] = Control[k]
           /\ pathIndex # 0 => preamble = Hello
<1>1. ClientInv /\ WriterInv /\ ReaderInv /\ StreamInv
  BY DEF PathStreamInv
<1>2. opt \in Transfers /\ pathIndex \in PathIndexes
  BY <1>1 DEF ClientInv
<1>3. /\ Head0 = IF pathIndex = 0 THEN 7 ELSE 3
      /\ pathIndex = 0 => WritePreamble = WriteControlHeader(Control)
      /\ pathIndex # 0 => WritePreamble = WritePathHello(Hello)
  BY <1>2, PreambleFacts, Zenon
<1>4. \A j \in 1..Head0 : Script[j] = WritePreamble[j]
  BY <1>1, ScriptFacts, Zenon
<1>5. Decoded(preamble, PreambleFields, Script, 1, Len(PreambleFields))
  BY <1>1 DEF ReaderInv
<1>6. PICK F : F = Script
  OBVIOUS
<1>7. CASE pathIndex = 0
  <2>1. Head0 = 7 /\ PreambleFields = ReadControlHeader /\ Len(ReadControlHeader) = 6
    BY <1>3, <1>7, Names DEF PreambleFields
  <2>2. \A k \in 1..7 : F[k] = WriteControlHeader(Control)[k]
    BY <1>3, <1>4, <1>6, <1>7, <2>1, Zenon
  <2>3. Decoded(preamble, ReadControlHeader, F, 1, 6)
    BY <1>5, <1>6, <2>1, Zenon
  <2>4. /\ preamble.totalSize = Control.totalSize
        /\ \A k \in DOMAIN Control : preamble[k] = Control[k]
    BY <1>2, <2>2, <2>3, ControlRead
  <2> QED BY <1>7, <2>4, Zenon
<1>8. CASE pathIndex # 0
  <2>1. Head0 = 3 /\ PreambleFields = ReadPathHello /\ Len(ReadPathHello) = 2
    BY <1>3, <1>8, Names DEF PreambleFields
  <2>2. \A k \in 1..3 : F[k] = WritePathHello(Hello)[k]
    BY <1>3, <1>4, <1>6, <1>8, <2>1, Zenon
  <2>3. Decoded(preamble, ReadPathHello, F, 1, 2)
    BY <1>5, <1>6, <2>1, Zenon
  <2>4. preamble = Hello
    BY <1>2, <2>2, <2>3, HelloRead
  <2> QED BY <1>8, <2>4, Zenon
<1> QED BY <1>7, <1>8

\* ReadChunk returns exactly what WriteChunk was given, chunk after chunk,
\* for every chunk length and every width of the integers.
THEOREM FramesStayFaithful == Spec => []FramesFaithful
<1>1. ASSUME PathStreamInv PROVE FramesFaithful
  <2>1. ClientInv /\ WriterInv /\ ReaderInv /\ StreamInv
    BY <1>1 DEF PathStreamInv
  <2>2. preamble # << >> =>
          IF pathIndex = 0
          THEN \A k \in DOMAIN Control : preamble[k] = Control[k]
          ELSE preamble = Hello
    <3>1. preamble # << >> => reading = "chunk"
      BY <2>1, Zenon DEF ReaderInv
    <3> QED BY <1>1, <3>1, PreambleRead, Zenon
  <2>3. Len(frames) \in Nat /\ Len(frames) <= Len(placed)
    BY <2>1, ReaderFacts, Zenon
  <2>4. Len(placed) \in Nat /\ ChunksFrom(Script, Head0, placed)
    BY <2>1, ScriptFacts, Zenon
  <2>5. ASSUME NEW i \in 1..Len(frames)
        PROVE  Same(frames[i], placed[i]) /\ VerifyChecksum(frames[i])
    <3>1. i \in 1..Len(placed)
      BY <2>3, <2>4
    <3>2. PICK F, from, c, g :
             F = Script /\ from = Head0 + 7 * (i - 1) /\ c = placed[i] /\ g = frames[i]
      OBVIOUS
    <3>3. FitsWire(c)
      BY <2>1, <3>1, <3>2 DEF WriterInv
    <3>4. \A k \in 1..7 : F[from + k] = WriteChunk(c)[k]
      BY <2>4, <3>1, <3>2, Zenon DEF ChunksFrom
    <3>5. Decoded(g, ReadChunk, F, from, 7)
      <4>1. Decoded(frames[i], ReadChunk, Script, Head0 + 7 * (i - 1), 7)
        BY <2>1 DEF ReaderInv
      <4> QED BY <3>2, <4>1, Zenon
    <3>6. Same(g, c) /\ VerifyChecksum(g)
      BY <3>3, <3>4, <3>5, FrameRead
    <3> QED BY <3>2, <3>6, Zenon
  <2> QED BY <2>2, <2>3, <2>5, Zenon DEF FramesFaithful
<1> QED BY <1>1, PathStreamInvariant, PTL

\* NewReassembler divides by zero only for a size that never gets through.
LEMMA PanicNeedsNoChunkSize ==
    ASSUME ClientInv, StartPanics(Control)
    PROVE  NoChunkSize
<1>1. opt \in Transfers
  BY DEF ClientInv
<1>2. PICK t, B : t = opt.sizes /\ B = 0..(Room[W64] - 1)
  OBVIOUS
<1>3. t \in Seq(B) /\ 1 \in 1..Len(t) /\ opt.continuous \in BOOLEAN
  BY <1>1, <1>2, PathStreamAssumption
<1>4. t[1] \in Nat
  <2>1. t[1] \in B
    BY <1>3
  <2>2. B \subseteq Nat
    BY <1>2, RoomFacts, WidthAssumption
  <2> QED BY <2>1, <2>2
<1>5. /\ Control.totalSize = IF opt.continuous THEN 0 ELSE opt.sizes[1]
      /\ Control.chunkSize = Uint32(opt.chunkSize)
  BY DEF Control
<1>6. Control.totalSize # 0 /\ ServerSize(Control) = 0
  BY Zenon DEF StartPanics, IsContinuous
<1>7. Control.totalSize = t[1]
  BY <1>2, <1>5, <1>6, Zenon
<1>8. Control.chunkSize = 0 /\ Uint32(Control.totalSize) = 0
  BY <1>6, Zenon DEF ServerSize
<1>9. t[1] > 0 /\ Uint32(t[1]) = 0 /\ Uint32(opt.chunkSize) = 0
  BY <1>4, <1>5, <1>6, <1>7, <1>8
<1> QED BY <1>2, <1>3, <1>9, Zenon DEF NoChunkSize

\* A control header whose last field was read is the one that was announced.
LEMMA HeaderRead ==
    ASSUME ClientInv, WriterInv, ReaderInv, StreamInv, reading = "control", NEW now,
           Decoded(now, Fields, Script, Before, Len(Fields)), StartPanics(now)
    PROVE  StartPanics(Control)
<1>1. opt \in Transfers /\ pathIndex \in PathIndexes /\ pathIndex = 0
  BY DEF ClientInv, ReaderInv
<1>2. Head0 = 7 /\ WritePreamble = WriteControlHeader(Control)
  BY <1>1, PreambleFacts
<1>3. PICK F : F = Script
  OBVIOUS
<1>4. \A k \in 1..7 : F[k] = WriteControlHeader(Control)[k]
  BY <1>2, <1>3, ScriptFacts, Zenon
<1>5. Fields = ReadControlHeader /\ Before = 1 /\ Len(Fields) = 6
  BY FieldsRead, Names DEF Before
<1>6. Decoded(now, ReadControlHeader, F, 1, 6)
  BY <1>3, <1>5, Zenon
<1>7. now.totalSize = Control.totalSize /\ \A k \in DOMAIN Control : now[k] = Control[k]
  BY <1>1, <1>4, <1>6, ControlRead
<1>8. "chunkSize" \in DOMAIN Control
  BY DEF Control
<1>9. now.chunkSize = Control.chunkSize
  BY <1>7, <1>8, Zenon
<1> QED BY <1>7, <1>9, Zenon DEF StartPanics, IsContinuous, ServerSize

\* The handler fails only if the connection died, and panics only on a size
\* that never gets through.
HandlerInv == (rpc = "error" => ~up) /\ (rpc = "panic" => NoChunkSize)

\* Every step keeps that.
LEMMA HandlerKept ==
    ASSUME PathStreamInv, HandlerInv, [Next]_pvars
    PROVE  HandlerInv'
<1>1. ClientInv /\ WriterInv /\ ReaderInv /\ StreamInv
  BY DEF PathStreamInv
<1>2. UNCHANGED opt
  BY DEF Next, ClientStep, SplitStep, SplitRunsOut, SplitDone, WriteField, NextBurst,
         CloseStream, PlaceChunk, ConnectionDies, pvars, wvars
<1>3. NoChunkSize' <=> NoChunkSize
  BY <1>2 DEF NoChunkSize
<1>4. CASE up /\ ClientStep /\ UNCHANGED <<hvars, up>>
  BY <1>3, <1>4 DEF HandlerInv, hvars
<1>5. CASE up /\ ReadField /\ UNCHANGED wvars
  <2>n. PICK n \in Nat :
           \E now :
              /\ Decoded(now, Fields, Script, Before, n + 1)
              /\ IF n + 1 = Len(Fields) THEN Completed(now)
                 ELSE got' = now /\ UNCHANGED <<rpc, reading, preamble, frames>>
    BY <1>1, <1>5, OneFieldRead
  <2>1. PICK now :
           /\ Decoded(now, Fields, Script, Before, n + 1)
           /\ IF n + 1 = Len(Fields) THEN Completed(now)
              ELSE got' = now /\ UNCHANGED <<rpc, reading, preamble, frames>>
    BY <2>n
  <2>2. up' = up /\ rpc = "read"
    BY <1>5 DEF ReadField
  <2>3. CASE n + 1 # Len(Fields)
    <3>1. rpc' = "read"
      BY <2>1, <2>2, <2>3, Zenon
    <3> QED BY <3>1 DEF HandlerInv
  <2>4. CASE n + 1 = Len(Fields)
    <3>1. Completed(now) /\ Decoded(now, Fields, Script, Before, Len(Fields))
      BY <2>1, <2>4, Zenon
    <3>2. /\ "kind" # "control" /\ "kind" # "hello" /\ "kind" # "chunk"
          /\ "control" # "hello" /\ "control" # "chunk" /\ "hello" # "chunk"
      OBVIOUS
    <3>3. CASE reading = "kind"
      <4>1. now["kind"] \in {StreamKindControl, StreamKindPath}
        BY <1>1, <3>1, <3>3, KindRead
      <4>2. rpc' = IF now.kind \in {StreamKindControl, StreamKindPath} THEN "read" ELSE "error"
        BY <3>1, <3>2, <3>3, Zenon DEF Completed
      <4>3. rpc' = "read"
        BY <4>1, <4>2, Zenon
      <4> QED BY <4>3 DEF HandlerInv
    <3>4. CASE reading \in {"control", "hello"}
      <4>1. rpc' = IF reading = "control" /\ StartPanics(now) THEN "panic" ELSE "read"
        BY <3>1, <3>2, <3>4, Zenon DEF Completed
      <4>2. rpc' # "error"
        BY <4>1
      <4>3. ASSUME rpc' = "panic" PROVE NoChunkSize
        <5>1. "panic" # "read"
          OBVIOUS
        <5>2. reading = "control" /\ StartPanics(now)
          BY <4>1, <4>3, <5>1, Zenon
        <5>3. StartPanics(Control)
          BY <1>1, <3>1, <5>2, HeaderRead
        <5> QED BY <1>1, <5>3, PanicNeedsNoChunkSize
      <4> QED BY <1>3, <4>2, <4>3 DEF HandlerInv
    <3>5. CASE reading = "chunk"
      <4>1. rpc' = rpc
        BY <3>1, <3>2, <3>5, Zenon DEF Completed
      <4> QED BY <2>2, <4>1 DEF HandlerInv
    <3> QED BY <1>1, <3>3, <3>4, <3>5, Zenon DEF ReaderInv
  <2> QED BY <2>3, <2>4
<1>6. CASE up /\ ReadEnds /\ UNCHANGED wvars
  <2>1. /\ fin /\ Len(stream) < Needed
        /\ rpc' = IF reading = "chunk" /\ stream = << >> THEN "eof" ELSE "error"
    BY <1>6 DEF ReadEnds
  <2>2. reading = "chunk" /\ stream = << >>
    BY <1>1, <2>1, EndOfStream
  <2>3. rpc' = "eof"
    BY <2>1, <2>2, Zenon
  <2> QED BY <2>3 DEF HandlerInv
<1>7. CASE ConnectionDies
  <2>1. up' = FALSE /\ rpc' = IF rpc = "read" THEN "error" ELSE rpc
    BY <1>7 DEF ConnectionDies
  <2> QED BY <1>3, <2>1 DEF HandlerInv
<1>8. CASE UNCHANGED pvars
  BY <1>3, <1>8 DEF HandlerInv, pvars, hvars
<1> QED BY <1>4, <1>5, <1>6, <1>7, <1>8, Zenon DEF Next

\* A clean EOF in the server's handler means that the client has closed after
\* its last burst and that every chunk it placed on the path was read; any
\* other end of the handler has its cause outside the stream.
THEOREM EOFProvesDelivery == Spec => []EOFMeansAll
<1>1. Init => HandlerInv
  BY DEF Init, HandlerInv
<1>2. PathStreamInv /\ HandlerInv /\ [Next]_pvars => HandlerInv'
  BY HandlerKept
<1>3. PathStreamInv /\ HandlerInv => EOFMeansAll
  <2>1. ASSUME PathStreamInv, rpc = "eof"
        PROVE  /\ cpc = "closed" /\ burst = Len(opt.sizes) /\ next = Len(chunks)
               /\ Len(frames) = Len(placed)
    BY <2>1, Zenon DEF PathStreamInv, ClientInv, ReaderInv
  <2> QED BY <2>1, Zenon DEF HandlerInv, EOFMeansAll
<1> QED BY <1>1, <1>2, <1>3, PathStreamInvariant, PTL DEF Spec

-----------------------------------------------------------------------------
\* The two sides' arithmetic.

\* Pieces that start within the payload and cover it are as many as the
\* division, rounded up, says.
LEMMA PiecesExact ==
    ASSUME NEW t \in Nat \ {0}, NEW c \in Nat \ {0}, NEW n \in Nat, n * c >= t,
           n # 0 => (n - 1) * c < t
    PROVE  n = (t + c - 1) \div c
<1>1. n # 0
  BY SMT
<1>2. PICK j \in Nat : n = j + 1
  <2>1. n - 1 \in Nat /\ n = (n - 1) + 1
    BY <1>1
  <2> QED BY <2>1
<1>3. j * c \in Nat /\ n * c = j * c + c /\ j * c < t
  BY <1>1, <1>2, SMT
<1>4. PICK x \in Nat : x = n * c
  BY <1>2, <1>3
<1>5. t + c - 1 \in Nat /\ x <= t + c - 1 /\ t + c - 1 < x + c
  BY <1>3, <1>4
<1>6. PICK a \in Nat : a = t + c - 1
  BY <1>5
<1>7. n * c <= a /\ a < n * c + c
  BY <1>4, <1>5, <1>6
<1>8. a \div c = n
  BY <1>7, DivUnique
<1> QED BY <1>6, <1>8

\* The slot of a piece.
LEMMA PieceSlot ==
    ASSUME NEW t \in Nat \ {0}, NEW c \in Nat \ {0}, NEW j \in Nat, j * c < t
    PROVE  (j * c) \div c = j /\ j < (t + c - 1) \div c
<1>1. PICK x \in Nat : x = j * c
  BY ProductOrder
<1>2. (j * c) \div c = j
  <2>1. j * c <= x /\ x < j * c + c
    BY <1>1
  <2>2. x \div c = j
    BY <2>1, DivUnique
  <2> QED BY <1>1, <2>2
<1>3. PICK k \in Nat : k = (t + c - 1) \div c
  BY PiecesOf
<1>4. j <= j * c
  BY ProductOrder
<1>5. j \in {i \in 0..(t - 1) : i * c < t}
  BY <1>1, <1>4
<1>6. j \in 0..(k - 1)
  BY <1>3, <1>5, PiecesOf, Zenon
<1> QED BY <1>2, <1>3, <1>6

\* One-shot: the sizes NewReassembler works with are Split's.
LEMMA OneShotSizes ==
    ASSUME ClientInv, ~opt.continuous
    PROVE  /\ burst = 1 /\ Control.totalSize = Size
           /\ ServerSize(Control) = SplitSize
           /\ NumChunks(Control) = (Size + SplitSize - 1) \div SplitSize
           /\ StartPanics(Control) <=> (Size # 0 /\ SplitSize = 0)
<1>1. opt \in Transfers /\ burst \in 1..Len(opt.sizes)
  BY DEF ClientInv
<1>2. Len(opt.sizes) = 1
  BY <1>1, PathStreamAssumption
<1>3. burst = 1
  BY <1>1, <1>2
<1>4. Control.totalSize = Size /\ Control.chunkSize = Uint32(opt.chunkSize)
  BY <1>3 DEF Control, Size
<1>5. ServerSize(Control) = SplitSize
  BY <1>4, Zenon DEF ServerSize, SplitSize
<1>6. NumChunks(Control) = (Size + SplitSize - 1) \div SplitSize
  BY <1>4, <1>5, Zenon DEF NumChunks
<1>7. StartPanics(Control) <=> (Size # 0 /\ SplitSize = 0)
  BY <1>4, <1>5, Zenon DEF StartPanics, IsContinuous
<1> QED BY <1>3, <1>4, <1>5, <1>6, <1>7

\* The server recognises a continuous session for what it is.
LEMMA SessionKindAgrees ==
    ASSUME PathStreamInv, reading = "chunk", pathIndex = 0
    PROVE  IsContinuous(preamble) <=> opt.continuous \/ opt.sizes = <<0>>
<1>1. preamble.totalSize = Control.totalSize
  BY PreambleRead, Zenon
<1>2. opt \in Transfers
  BY DEF PathStreamInv, ClientInv
<1>3. /\ opt.continuous \in BOOLEAN /\ opt.sizes \in Seq(0..(Room[W64] - 1))
      /\ opt.continuous \/ Len(opt.sizes) = 1
  BY <1>2, PathStreamAssumption
<1>4. Control.totalSize = IF opt.continuous THEN 0 ELSE opt.sizes[1]
  BY DEF Control
<1>5. CASE opt.continuous
  BY <1>1, <1>4, <1>5 DEF IsContinuous
<1>6. CASE ~opt.continuous
  <2>1. PICK t, B : t = opt.sizes /\ B = 0..(Room[W64] - 1)
    OBVIOUS
  <2>2. t \in Seq(B) /\ Len(t) = 1
    BY <1>3, <1>6, <2>1
  <2>3. t = <<0>> <=> t[1] = 0
    BY <2>2
  <2>4. preamble.totalSize = t[1]
    BY <1>1, <1>4, <1>6, <2>1
  <2> QED BY <1>6, <2>1, <2>3, <2>4, Zenon DEF IsContinuous
<1> QED BY <1>5, <1>6

\* Split and NewReassembler work out the same chunks, for every payload and
\* chunk size, also those that do not fit a uint32.
THEOREM SidesStayInAgreement == Spec => []SidesAgree
<1>1. ASSUME PathStreamInv PROVE SidesAgree
  <2>1. ClientInv
    BY <1>1 DEF PathStreamInv
  <2>2. (rpc = "read" /\ reading = "chunk" /\ pathIndex = 0) =>
          (IsContinuous(preamble) <=> opt.continuous \/ opt.sizes = <<0>>)
    BY <1>1, SessionKindAgrees, Zenon
  <2>3. ASSUME ~opt.continuous, Size > 0, ~StartPanics(Control)
        PROVE  /\ \A i \in 1..Len(chunks) :
                     /\ chunks[i].offset \div ServerSize(Control) = chunks[i].seq
                     /\ chunks[i].seq < NumChunks(Control)
                     /\ Len(chunks[i].data) < Room[W32]
                     /\ chunks[i].offset + Len(chunks[i].data) <= Control.totalSize
               /\ cpc \in {"send", "closed"} => Len(chunks) = NumChunks(Control)
    <3>1. /\ Control.totalSize = Size /\ ServerSize(Control) = SplitSize
          /\ NumChunks(Control) = (Size + SplitSize - 1) \div SplitSize
          /\ StartPanics(Control) <=> (Size # 0 /\ SplitSize = 0)
      BY <2>1, <2>3, OneShotSizes, Zenon
    <3>2. /\ Size \in Nat /\ SplitSize \in Nat /\ Room[W32] \in Nat
          /\ SplitSize < Room[W32]
      <4>1. opt \in Transfers /\ burst \in 1..Len(opt.sizes)
        BY <2>1 DEF ClientInv
      <4> QED BY <4>1, SplitSizes
    <3>3. Size # 0 /\ SplitSize # 0
      BY <2>3, <3>1, <3>2
    <3>4. PICK t \in Nat \ {0}, c \in Nat \ {0}, q \in Nat :
             t = Size /\ c = SplitSize /\ q = Room[W32]
      BY <3>2, <3>3
    <3>n. PICK n : n = Len(chunks)
      OBVIOUS
    <3>5. n \in Nat /\ c < q
      <4>1. PICK T : chunks \in Seq(T)
        BY <2>1 DEF ClientInv
      <4> QED BY <3>2, <3>4, <3>n, <4>1
    <3>6. ASSUME NEW i \in 1..n
          PROVE  \E j \in Nat, l \in Nat :
                    /\ j = i - 1 /\ l = Len(chunks[i].data) /\ l < q /\ j * c + l <= t
                    /\ chunks[i].seq = j /\ chunks[i].offset = j * c /\ j * c < t
      <4>1. PICK k, id : k = chunks[i] /\ id = BurstID
        OBVIOUS
      <4>2. ChunkMade(k, i, c, t, id)
        BY <2>1, <3>4, <3>n, <4>1 DEF ClientInv
      <4>3. /\ k.seq = i - 1 /\ k.offset = (i - 1) * c /\ k.offset < t
            /\ Len(k.data) = Min({k.offset + c, t}) - k.offset
        BY <4>2, Zenon DEF ChunkMade
      <4>4. PICK j \in Nat : j = i - 1
        BY <3>5
      <4>5. PICK x \in Nat : x = j * c
        BY ProductOrder
      <4>6. k.seq = j /\ k.offset = x /\ x < t
        BY <4>3, <4>4, <4>5
      <4>7. PICK y : y = Min({x + c, t})
        OBVIOUS
      <4>8. y \in {x + c, t} /\ y <= x + c /\ y <= t
        <5>1. x + c \in Int /\ t \in Int
          OBVIOUS
        <5> QED BY <4>7, <5>1, MinOfTwo
      <4>9. Len(k.data) = y - x
        BY <4>3, <4>6, <4>7, Zenon
      <4>10. y - x \in Nat /\ y - x < q /\ x + (y - x) <= t
        BY <3>5, <4>6, <4>8
      <4>11. PICK l \in Nat : l = Len(k.data) /\ l < q /\ x + l <= t
        BY <4>9, <4>10
      <4> QED BY <4>1, <4>4, <4>5, <4>6, <4>11
    <3>7. ASSUME NEW i \in 1..n
          PROVE  /\ chunks[i].offset \div c = chunks[i].seq
                 /\ chunks[i].seq < (t + c - 1) \div c
                 /\ Len(chunks[i].data) < q
                 /\ chunks[i].offset + Len(chunks[i].data) <= t
      <4>1. PICK j \in Nat, l \in Nat :
               /\ j = i - 1 /\ l = Len(chunks[i].data) /\ l < q /\ j * c + l <= t
               /\ chunks[i].seq = j /\ chunks[i].offset = j * c /\ j * c < t
        BY <3>6
      <4>2. (j * c) \div c = j /\ j < (t + c - 1) \div c
        BY <4>1, PieceSlot
      <4> QED BY <4>1, <4>2, Zenon
    <3>8. ASSUME cpc \in {"send", "closed"} PROVE n = (t + c - 1) \div c
      <4>1. n * c >= t
        <5>1. offset = Len(chunks) * SplitSize /\ offset >= Size
          BY <2>1, <3>8 DEF ClientInv
        <5> QED BY <3>4, <3>n, <5>1
      <4>2. ASSUME n # 0 PROVE (n - 1) * c < t
        <5>1. n \in 1..n
          BY <3>5, <4>2
        <5> QED BY <3>6, <5>1
      <4> QED BY <3>5, <4>1, <4>2, PiecesExact
    <3> QED BY <3>1, <3>4, <3>n, <3>7, <3>8, Zenon
  <2> QED BY <2>2, <2>3, Zenon DEF SidesAgree
<1> QED BY <1>1, PathStreamInvariant, PTL

-----------------------------------------------------------------------------
\* Types.

\* The stream carries bytes.
LEMMA BytesKept ==
    ASSUME PathStreamInv, [Next]_pvars, \A i \in 1..Len(stream) : stream[i] \in 0..(Base - 1)
    PROVE  \A i \in 1..Len(stream') : stream'[i] \in 0..(Base - 1)
<1>1. ClientInv /\ WriterInv /\ ReaderInv /\ StreamInv
  BY DEF PathStreamInv
<1>2. PICK s, B : s = stream /\ B = 0..(Base - 1)
  OBVIOUS
<1>3. s \in Seq(Nat) /\ \A i \in 1..Len(s) : s[i] \in B
  BY <1>1, <1>2 DEF StreamInv
<1>4. s \in Seq(B)
  <2>1. PICK n \in Nat : n = Len(s)
    BY <1>3
  <2>2. s = [i \in 1..n |-> s[i]]
    BY <1>3, <2>1
  <2>3. s \in [1..n -> B]
    BY <1>3, <2>1, <2>2, Zenon
  <2> QED BY <2>3
<1>5. ASSUME stream' \in Seq(B) PROVE \A i \in 1..Len(stream') : stream'[i] \in B
  BY <1>5
<1>6. CASE WriteField
  <2>1. stream' = s \o Head(pending) /\ pending # << >>
    BY <1>2, <1>6 DEF WriteField
  <2>2. Total \in Nat /\ \A j \in 1..Total : IsField(Script[j])
    BY <1>1, ScriptFacts, Zenon
  <2>3. PICK n \in Nat :
           /\ n = Len(pending) /\ n <= Total /\ Written = Total - n /\ Written \in 0..Total
           /\ pending = [k \in 1..n |-> Script[Written + k]]
    BY <1>1, WriterFacts
  <2>4. n # 0
    <3>1. n = 0 => pending = << >>
      BY <2>3
    <3> QED BY <2>1, <3>1
  <2>5. 1 \in 1..n /\ Written + 1 \in 1..Total
    BY <2>2, <2>3, <2>4
  <2>6. Head(pending) = pending[1]
    OBVIOUS
  <2>7. Head(pending) = Script[Written + 1]
    BY <2>3, <2>5, <2>6, Zenon
  <2>8. Head(pending) \in Seq(B)
    BY <1>2, <2>2, <2>5, <2>7, Zenon DEF IsField
  <2>9. PICK h : h = Head(pending)
    OBVIOUS
  <2>10. s \o h \in Seq(B)
    BY <1>4, <2>8, <2>9
  <2> QED BY <1>2, <1>5, <2>1, <2>9, <2>10
<1>7. CASE ReadField
  <2>1. PICK m : m = Needed
    OBVIOUS
  <2>2. m \in Nat
    BY <1>1, <2>1, NextWidth
  <2>3. stream' = SubSeq(s, m + 1, Len(s))
    BY <1>2, <1>7, <2>1 DEF ReadField
  <2>4. \A i \in (m + 1)..Len(s) : s[i] \in B
    BY <1>3, <2>2
  <2>5. SubSeq(s, m + 1, Len(s)) \in Seq(B)
    BY <1>4, <2>2, <2>4
  <2> QED BY <1>2, <1>5, <2>3, <2>5
<1>8. CASE UNCHANGED stream
  BY <1>2, <1>4, <1>5, <1>8
<1>9. WriteField \/ ReadField \/ UNCHANGED stream
  BY DEF Next, ClientStep, SplitStep, SplitRunsOut, SplitDone, NextBurst,
         CloseStream, PlaceChunk, ReadEnds, ConnectionDies, pvars, tvars
<1> QED BY <1>6, <1>7, <1>8, <1>9

\* The program counters and Split's memory.
LEMMA CountersKept ==
    ASSUME PathStreamInv, [Next]_pvars, up \in BOOLEAN,
           cpc \in {"split", "send", "closed", "oom"},
           rpc \in {"read", "eof", "error", "panic"}, Len(chunks) <= MaxChunks
    PROVE  /\ up' \in BOOLEAN /\ cpc' \in {"split", "send", "closed", "oom"}
           /\ rpc' \in {"read", "eof", "error", "panic"} /\ Len(chunks') <= MaxChunks
<1>1. ClientInv /\ ReaderInv
  BY DEF PathStreamInv
<1>2. PICK T : chunks \in Seq(T)
  BY <1>1 DEF ClientInv
<1>3. Len(chunks) \in Nat /\ MaxChunks \in Nat
  BY <1>2, PathStreamAssumption
<1>4. CASE up /\ ClientStep /\ UNCHANGED <<hvars, up>>
  <2>1. up' = up /\ rpc' = rpc
    BY <1>4 DEF hvars
  <2>2. CASE SplitStep
    <3>1. PICK c : chunks' = Append(chunks, c)
      BY <2>2 DEF SplitStep
    <3>2. Len(chunks) < MaxChunks /\ cpc' = cpc
      BY <2>2 DEF SplitStep
    <3>3. Len(chunks') = Len(chunks) + 1
      BY <1>2, <3>1
    <3> QED BY <1>3, <2>1, <3>2, <3>3
  <2>3. CASE NextBurst
    <3>1. chunks' = << >> /\ cpc' = "split"
      BY <2>3 DEF NextBurst
    <3> QED BY <1>3, <2>1, <3>1
  <2>4. CASE ~SplitStep /\ ~NextBurst
    <3>1. chunks' = chunks /\ cpc' \in {cpc, "oom", "send", "closed"}
      BY <1>4, <2>4 DEF ClientStep, SplitRunsOut, SplitDone, WriteField, CloseStream, PlaceChunk
    <3> QED BY <2>1, <3>1
  <2> QED BY <2>2, <2>3, <2>4
<1>5. CASE up /\ (ReadField \/ ReadEnds) /\ UNCHANGED wvars
  <2>1. up' = up /\ cpc' = cpc /\ chunks' = chunks
    BY <1>5 DEF ReadField, ReadEnds, wvars
  <2>2. CASE ReadEnds
    <3>1. rpc' = IF reading = "chunk" /\ stream = << >> THEN "eof" ELSE "error"
      BY <2>2 DEF ReadEnds
    <3> QED BY <2>1, <3>1
  <2>3. CASE ReadField
    <3>1. rpc' = rpc \/ \E now : Completed(now)
      BY <2>3, Zenon DEF ReadField
    <3>2. ASSUME NEW now, Completed(now) PROVE rpc' \in {rpc, "read", "error", "panic"}
      BY <1>1, <3>2, CompletedCases DEF ReaderInv
    <3> QED BY <2>1, <3>1, <3>2
  <2> QED BY <1>5, <2>2, <2>3
<1>6. CASE ConnectionDies
  BY <1>6 DEF ConnectionDies, wvars
<1>7. CASE UNCHANGED pvars
  BY <1>7 DEF pvars, wvars, hvars
<1> QED BY <1>4, <1>5, <1>6, <1>7, Zenon DEF Next

\* The state of a path's stream keeps its types; the bytes in flight are bytes.
THEOREM PathStreamTypes == Spec => []PathStreamTypeOK
<1> DEFINE R == /\ up \in BOOLEAN /\ cpc \in {"split", "send", "closed", "oom"}
                /\ rpc \in {"read", "eof", "error", "panic"} /\ Len(chunks) <= MaxChunks
                /\ \A i \in 1..Len(stream) : stream[i] \in 0..(Base - 1)
<1>1. Init => R
  <2>1. Len(<< >>) = 0 /\ 0 <= MaxChunks /\ \A i : i \notin 1..Len(<< >>)
    BY PathStreamAssumption
  <2>2. Init => /\ up = TRUE /\ cpc = "split" /\ rpc = "read"
                /\ chunks = << >> /\ stream = << >>
    BY Zenon DEF Init
  <2> QED BY <2>1, <2>2
<1>2. PathStreamInv /\ R /\ [Next]_pvars => R'
  <2> SUFFICES ASSUME PathStreamInv, R, [Next]_pvars PROVE R'
    OBVIOUS
  <2>1. /\ up' \in BOOLEAN /\ cpc' \in {"split", "send", "closed", "oom"}
        /\ rpc' \in {"read", "eof", "error", "panic"} /\ Len(chunks') <= MaxChunks
    BY CountersKept
  <2>2. \A i \in 1..Len(stream') : stream'[i] \in 0..(Base - 1)
    BY BytesKept
  <2> QED BY <2>1, <2>2
<1>3. PathStreamInv /\ R => PathStreamTypeOK
  <2> SUFFICES ASSUME PathStreamInv, R PROVE PathStreamTypeOK
    OBVIOUS
  <2>1. ClientInv /\ ReaderInv
    BY DEF PathStreamInv
  <2>2. /\ opt \in Transfers /\ pathIndex \in PathIndexes
        /\ burst \in 1..Len(opt.sizes) /\ next \in 0..Len(chunks)
        /\ offset = Len(chunks) * SplitSize
        /\ reading \in {"kind", "control", "hello", "chunk"}
    BY <2>1 DEF ClientInv, ReaderInv
  <2>3. offset \in Nat
    <3>1. PICK T : chunks \in Seq(T)
      BY <2>1 DEF ClientInv
    <3>2. PICK n \in Nat, z \in Nat : n = Len(chunks) /\ z = SplitSize
      BY <2>2, <3>1, SplitSizes
    <3>3. n * z \in Nat
      BY SMT
    <3> QED BY <2>2, <3>2, <3>3, Zenon
  <2> QED BY <2>2, <2>3, Zenon DEF PathStreamTypeOK
<1> QED BY <1>1, <1>2, <1>3, PathStreamInvariant, PTL DEF Spec
=============================================================================
