--------------------------- MODULE SendPathProofs ---------------------------
(***************************************************************************)
(* Proofs about the path writers over congestion-controlled packets and    *)
(* the progress line they feed, for any number of paths, any shares of the *)
(* chunks, any sizes and any -cc lists.                                    *)
(***************************************************************************)
EXTENDS SendPath, Counting

Packet == [off : Nat, len : 1..(MaxDatagram - 1), arrived : BOOLEAN]

BytesOf(pkt) == pkt.off..(pkt.off + pkt.len - 1)

\* The bytes of a set of packets, headers included, as in BytesInFlight.
Weight(S) == SumOver(S, [pkt \in S |-> Length(pkt)])

-----------------------------------------------------------------------------
\* The inductive invariant, in parts.

ControlTypes ==
    /\ cpc \in {"start", "dial", "send", "sent", "fatal"}
    /\ ci \in 0..NumPaths
    /\ CCTypeOK
    /\ \A p \in Paths : share[p] \in Nat
    /\ losses \in 0..MaxLosses

\* Nothing is sent before every path has its controller: a window is chosen
\* while the path is empty.
StartInv ==
    cpc \in {"start", "dial", "fatal"} =>
        \A p \in Paths : /\ wpc[p] = "idle" /\ frames[p] = 0 /\ sendOff[p] = 0
                         /\ flight[p] = {} /\ lost[p] = {}

\* A frame is counted when all but less than a datagram of it has been put in
\* packets, and the next one is started after that.
WriterInv ==
    /\ wpc \in [Paths -> {"idle", "write", "report"}]
    /\ frames \in [Paths -> Nat]
    /\ chunksSent \in [Paths -> Nat]
    /\ sendOff \in [Paths -> Nat]
    /\ \A p \in Paths :
          /\ frames[p] <= share[p]
          /\ frames[p] = chunksSent[p] + (IF wpc[p] = "write" THEN 1 ELSE 0)
          /\ sendOff[p] <= frames[p] * FrameLen
          /\ chunksSent[p] * FrameLen < sendOff[p] + MaxDatagram

\* A byte that was put in a packet (the first off of a path) has arrived or is
\* in a packet that is in flight or waits to be sent again.
Account(off, inFlight, waiting, arrived) ==
    /\ IsFiniteSet(inFlight) /\ IsFiniteSet(waiting)
    /\ arrived \subseteq 0..(off - 1)
    /\ \A pkt \in inFlight \cup waiting : pkt.off + pkt.len <= off
    /\ \A pkt \in inFlight : pkt.arrived => BytesOf(pkt) \subseteq arrived
    /\ \A b \in 0..(off - 1) :
          b \in arrived \/ \E pkt \in inFlight \cup waiting : b \in BytesOf(pkt)

PacketInv ==
    /\ flight \in [Paths -> SUBSET Packet]
    /\ lost \in [Paths -> SUBSET Packet]
    /\ got \in [Paths -> SUBSET Nat]
    /\ \A p \in Paths : Account(sendOff[p], flight[p], lost[p], got[p])

\* New data waits for the lost packets, so these are within the window too.
WindowInv ==
    \A p \in Paths : cc[p] = "fixed" =>
        Weight(flight[p]) + Weight(lost[p]) < GetCongestionWindow(p) + MaxDatagram

\* The count in the channel is the only one that can still be printed.
PrinterInv ==
    /\ PrinterTypeOK
    /\ sent \in Nat /\ last <= sent
    /\ current # << >> => last < Head(current) /\ Head(current) <= sent

SendPathInv ==
    ControlTypes /\ StartInv /\ WriterInv /\ PacketInv /\ WindowInv /\ PrinterInv
-----------------------------------------------------------------------------
\* Packets.

\* Weighing a set of packets, with one more and with one less.
LEMMA WeightFacts ==
    ASSUME NEW S \in SUBSET Packet, IsFiniteSet(S)
    PROVE  /\ Weight(S) \in Nat
           /\ \A x \in Packet : /\ Length(x) \in 2..MaxDatagram
                               /\ IsFiniteSet(S \cup {x})
                               /\ Weight(S \cup {x}) \in Nat
                               /\ Weight(S \cup {x}) <= Weight(S) + Length(x)
           /\ \A x \in S : /\ IsFiniteSet(S \ {x})
                          /\ Weight(S \ {x}) \in Nat
                          /\ Weight(S) = Weight(S \ {x}) + Length(x)
<1> DEFINE f == [pkt \in Packet |-> Length(pkt)]
<1>1. \A x \in Packet : Length(x) \in 2..MaxDatagram
  BY CCAssumption, SMT DEF Packet, Length
<1>2. \A x \in Packet : f[x] = Length(x) /\ f[x] \in Nat
  BY <1>1, CCAssumption, SMT
<1>3. ASSUME NEW T \in SUBSET Packet PROVE Weight(T) = SumOver(T, f)
  <2> DEFINE g == [pkt \in T |-> Length(pkt)]
  <2>1. \A x \in T : g[x] = f[x]
    BY <1>2
  <2>2. Weight(T) = SumOver(T, g)
    BY DEF Weight
  <2> HIDE DEF f, g
  <2> QED BY <2>1, <2>2, SumSame
<1> HIDE DEF f
<1>4. ASSUME NEW T \in SUBSET Packet, IsFiniteSet(T) PROVE Weight(T) \in Nat
  BY <1>2, <1>3, <1>4, SumFinite
<1>5. ASSUME NEW x \in Packet
      PROVE  /\ IsFiniteSet(S \cup {x}) /\ Weight(S \cup {x}) \in Nat
             /\ Weight(S \cup {x}) <= Weight(S) + Length(x)
  <2>1. IsFiniteSet(S \cup {x}) /\ S \cup {x} \in SUBSET Packet
    BY FS_AddElement
  <2>2. Weight(S \cup {x}) \in Nat /\ Weight(S) \in Nat /\ Length(x) \in Nat
    BY <1>2, <1>4, <2>1
  <2>3. CASE x \in S
    <3>1. S \cup {x} = S
      BY <2>3
    <3>2. Weight(S \cup {x}) = Weight(S)
      BY <3>1
    <3> QED BY <2>1, <2>2, <3>2
  <2>4. CASE x \notin S
    <3>1. SumOver(S \cup {x}, f) = SumOver(S, f) + f[x]
      BY <1>2, <2>4, SumAdd
    <3> QED BY <1>2, <1>3, <2>1, <2>2, <3>1, SMT
  <2> QED BY <2>3, <2>4
<1>6. ASSUME NEW x \in S
      PROVE  /\ IsFiniteSet(S \ {x}) /\ Weight(S \ {x}) \in Nat
             /\ Weight(S) = Weight(S \ {x}) + Length(x)
  <2>1. IsFiniteSet(S \ {x}) /\ S \ {x} \in SUBSET Packet
    BY FS_RemoveElement
  <2>2. SumOver(S, f) = SumOver(S \ {x}, f) + f[x]
    BY <1>2, SumRemove
  <2> QED BY <1>2, <1>3, <1>4, <2>1, <2>2
<1> QED BY <1>1, <1>4, <1>5, <1>6

\* Packets cannot carry more bytes than they weigh.
LEMMA WeightCovers ==
    ASSUME NEW S \in SUBSET Packet, IsFiniteSet(S)
    PROVE  LET U == UNION {BytesOf(pkt) : pkt \in S}
           IN  IsFiniteSet(U) /\ Cardinality(U) <= Weight(S)
<1> DEFINE U == UNION {BytesOf(pkt) : pkt \in S}
           f == [pkt \in S |-> Length(pkt)]
           V == {u \in Units(S, f) : u[2] <= u[1].len}
           h == [u \in V |-> u[1].off + u[2] - 1]
<1>1. \A pkt \in S : /\ f[pkt] = Length(pkt) /\ f[pkt] \in Nat
                     /\ pkt.off \in Nat /\ pkt.len \in Nat /\ f[pkt] = pkt.len + 1
  BY CCAssumption, SMT DEF Packet, Length
<1>2. IsFiniteSet(Units(S, f)) /\ Weight(S) = Cardinality(Units(S, f))
  <2>1. Weight(S) = SumOver(S, f)
    BY DEF Weight
  <2> HIDE DEF f
  <2> QED BY <1>1, <2>1, SumFinite DEF SumOver
<1> HIDE DEF f
<1>3. IsFiniteSet(V) /\ Cardinality(V) <= Weight(S)
  BY <1>2, FS_Subset
<1>4. ASSUME NEW u \in V PROVE h[u] \in U
  <2>1. u[1] \in S /\ u[2] \in 1..f[u[1]] /\ u[2] <= u[1].len
    BY DEF Units
  <2>2. h[u] \in BytesOf(u[1])
    BY <1>1, <2>1, SMT DEF BytesOf
  <2> QED BY <2>1, <2>2
<1>5. ASSUME NEW b \in U PROVE \E u \in V : h[u] = b
  <2>1. PICK pkt \in S : b \in BytesOf(pkt)
    OBVIOUS
  <2> DEFINE k == b - pkt.off + 1
  <2>2. k \in 1..f[pkt] /\ k <= pkt.len /\ pkt.off + k - 1 = b
    BY <1>1, <2>1, SMT DEF BytesOf
  <2> HIDE DEF k
  <2>3. <<pkt, k>> \in V
    BY <2>2 DEF Units
  <2>4. h[<<pkt, k>>] = b
    BY <2>2, <2>3
  <2> QED BY <2>3, <2>4
<1>6. h \in Surjection(V, U)
  BY <1>4, <1>5 DEF Surjection
<1>7. IsFiniteSet(U) /\ Cardinality(U) <= Cardinality(V)
  BY <1>3, <1>6, FS_Surjection
<1>8. Cardinality(U) \in Nat /\ Cardinality(V) \in Nat /\ Weight(S) \in Nat
  BY <1>2, <1>3, <1>7, FS_CardinalityType
<1> QED BY <1>3, <1>7, <1>8

\* Two sets together have at most the elements of each.
LEMMA SetsAdd ==
    ASSUME NEW S, IsFiniteSet(S), NEW T, IsFiniteSet(T)
    PROVE  IsFiniteSet(S \cup T) /\ Cardinality(S \cup T) <= Cardinality(S) + Cardinality(T)
<1>1. IsFiniteSet(S \cup T)
      /\ Cardinality(S \cup T) = Cardinality(S) + Cardinality(T) - Cardinality(S \cap T)
  BY FS_Union
<1>2. IsFiniteSet(S \cap T)
  <2>1. S \cap T \in SUBSET S
    OBVIOUS
  <2> QED BY <2>1, FS_Subset
<1>3. Cardinality(S) \in Nat /\ Cardinality(T) \in Nat /\ Cardinality(S \cap T) \in Nat
  BY <1>2, FS_CardinalityType
<1> QED BY <1>1, <1>3, SMT

\* So what has not arrived of the bytes sent weighs no more than the packets
\* that are in flight or lost.
LEMMA MissingBytes ==
    ASSUME NEW off \in Nat, NEW F \in SUBSET Packet, NEW L \in SUBSET Packet,
           NEW G \in SUBSET Nat, Account(off, F, L, G)
    PROVE  /\ Cardinality(G) \in Nat
           /\ off <= Cardinality(G) + Weight(F) + Weight(L)
<1> DEFINE U(S) == UNION {BytesOf(pkt) : pkt \in S}
           A == G \cup U(F)
           B == A \cup U(L)
<1>1. IsFiniteSet(F) /\ IsFiniteSet(L)
  BY DEF Account
<1>2. IsFiniteSet(0..(off - 1)) /\ Cardinality(0..(off - 1)) = off
  <2>1. 0 \in Nat /\ off - 1 = 0 + off - 1
    BY SMT
  <2> QED BY <2>1, RunOfNumbers
<1>3. IsFiniteSet(G) /\ Cardinality(G) \in Nat
  BY <1>2, FS_Subset, FS_CardinalityType DEF Account
<1>4. /\ IsFiniteSet(U(F)) /\ Cardinality(U(F)) <= Weight(F)
      /\ IsFiniteSet(U(L)) /\ Cardinality(U(L)) <= Weight(L)
      /\ Weight(F) \in Nat /\ Weight(L) \in Nat
  BY <1>1, WeightCovers, WeightFacts
<1>5. 0..(off - 1) \subseteq B
  BY DEF Account
<1> HIDE DEF U
<1>6. IsFiniteSet(A) /\ Cardinality(A) <= Cardinality(G) + Cardinality(U(F))
  BY <1>3, <1>4, SetsAdd
<1> HIDE DEF A
<1>7. IsFiniteSet(B) /\ Cardinality(B) <= Cardinality(A) + Cardinality(U(L))
  BY <1>4, <1>6, SetsAdd
<1> HIDE DEF B
<1>8. off <= Cardinality(B)
  BY <1>2, <1>5, <1>7, FS_Subset
<1>9. /\ Cardinality(A) \in Nat /\ Cardinality(B) \in Nat
      /\ Cardinality(U(F)) \in Nat /\ Cardinality(U(L)) \in Nat
  BY <1>4, <1>6, <1>7, FS_CardinalityType
<1> QED BY <1>3, <1>4, <1>6, <1>7, <1>8, <1>9, SMT
-----------------------------------------------------------------------------
\* What happens to a packet: each of these keeps the account and does not add
\* to the weight, except that new data is put in a new packet.

\* New data.
LEMMA NewPacket ==
    ASSUME NEW off \in Nat, NEW F \in SUBSET Packet, NEW L \in SUBSET Packet,
           NEW G \in SUBSET Nat, Account(off, F, L, G),
           NEW k \in 1..(MaxDatagram - 1),
           NEW pkt, pkt = [off |-> off, len |-> k, arrived |-> FALSE]
    PROVE  pkt \in Packet /\ Account(off + k, F \cup {pkt}, L, G)
<1>1. pkt \in Packet /\ pkt.off = off /\ pkt.len = k /\ ~pkt.arrived
  BY DEF Packet
<1>2. IsFiniteSet(F \cup {pkt}) /\ IsFiniteSet(L)
  BY FS_AddElement DEF Account
<1>3. \A x \in F \cup L : x.off \in Nat /\ x.len \in Nat /\ x.off + x.len <= off
  BY SMT DEF Account, Packet
<1>4. \A x \in (F \cup {pkt}) \cup L : x.off + x.len <= off + k
  BY <1>1, <1>3, SMT
<1>5. G \subseteq 0..(off + k - 1)
  BY SMT DEF Account
<1>6. ASSUME NEW b \in 0..(off + k - 1)
      PROVE  b \in G \/ \E x \in (F \cup {pkt}) \cup L : b \in BytesOf(x)
  <2>1. CASE b < off
    <3>1. b \in 0..(off - 1)
      BY <2>1
    <3> QED BY <3>1 DEF Account
  <2>2. CASE b >= off
    <3>1. b \in BytesOf(pkt)
      BY <1>1, <2>2 DEF BytesOf
    <3> QED BY <3>1
  <2> QED BY <2>1, <2>2
<1>7. \A x \in F \cup {pkt} : x.arrived => BytesOf(x) \subseteq G
  BY <1>1 DEF Account
<1> QED BY <1>1, <1>2, <1>4, <1>5, <1>6, <1>7 DEF Account

\* A packet with its mark changed carries the same bytes.
LEMMA Marked ==
    ASSUME NEW old \in Packet, NEW a \in BOOLEAN
    PROVE  LET pkt == [old EXCEPT !.arrived = a]
           IN  pkt \in Packet /\ pkt.off = old.off /\ pkt.len = old.len /\ pkt.arrived = a
<1> DEFINE pkt == [old EXCEPT !.arrived = a]
<1>1. pkt \in Packet
  BY Zenon DEF Packet
<1>2. pkt.off = old.off /\ pkt.len = old.len /\ pkt.arrived = a
  BY DEF Packet
<1> QED BY <1>1, <1>2

\* A lost packet is sent again.
LEMMA PacketAgain ==
    ASSUME NEW off \in Nat, NEW F \in SUBSET Packet, NEW L \in SUBSET Packet,
           NEW G \in SUBSET Nat, Account(off, F, L, G),
           NEW old \in L, NEW pkt \in Packet,
           pkt.off = old.off, pkt.len = old.len, ~pkt.arrived
    PROVE  /\ Account(off, F \cup {pkt}, L \ {old}, G)
           /\ Weight(F \cup {pkt}) + Weight(L \ {old}) <= Weight(F) + Weight(L)
<1>2. BytesOf(pkt) = BytesOf(old) /\ Length(pkt) = Length(old)
  BY DEF BytesOf, Length
<1>3. IsFiniteSet(F) /\ IsFiniteSet(L)
  BY DEF Account
<1>4. Account(off, F \cup {pkt}, L \ {old}, G)
  <2>1. IsFiniteSet(F \cup {pkt}) /\ IsFiniteSet(L \ {old})
    BY <1>3, WeightFacts
  <2> QED BY <1>2, <2>1 DEF Account
<1>5. /\ Weight(F) \in Nat /\ Weight(F \cup {pkt}) \in Nat /\ Length(pkt) \in 2..MaxDatagram
      /\ Weight(F \cup {pkt}) <= Weight(F) + Length(pkt)
  BY <1>3, WeightFacts
<1>6. /\ Weight(L) \in Nat /\ Weight(L \ {old}) \in Nat
      /\ Weight(L) = Weight(L \ {old}) + Length(old)
  BY <1>3, WeightFacts
<1> QED BY <1>2, <1>4, <1>5, <1>6, SMT

\* A packet arrives.
LEMMA PacketArrived ==
    ASSUME NEW off \in Nat, NEW F \in SUBSET Packet, NEW L \in SUBSET Packet,
           NEW G \in SUBSET Nat, Account(off, F, L, G),
           NEW old \in F, NEW pkt \in Packet,
           pkt.off = old.off, pkt.len = old.len
    PROVE  /\ G \cup BytesOf(old) \in SUBSET Nat
           /\ Account(off, (F \ {old}) \cup {pkt}, L, G \cup BytesOf(old))
           /\ Weight((F \ {old}) \cup {pkt}) \in Nat
           /\ Weight((F \ {old}) \cup {pkt}) <= Weight(F)
<1> DEFINE R == F \ {old}
<1>1. /\ old.off \in Nat /\ old.len \in Nat /\ old.off + old.len <= off
  BY DEF Packet, Account
<1>2. BytesOf(pkt) = BytesOf(old) /\ Length(pkt) = Length(old)
  BY DEF BytesOf, Length
<1>3. BytesOf(old) \subseteq 0..(off - 1) /\ BytesOf(old) \subseteq Nat
  BY <1>1, SMT DEF BytesOf
<1>4. IsFiniteSet(F) /\ IsFiniteSet(L)
  BY DEF Account
<1>5. /\ Weight(F) \in Nat /\ IsFiniteSet(R) /\ Weight(R) \in Nat
      /\ Weight(F) = Weight(R) + Length(old)
  BY <1>4, WeightFacts
<1>6. /\ Length(pkt) \in 2..MaxDatagram /\ IsFiniteSet(R \cup {pkt}) /\ Weight(R \cup {pkt}) \in Nat
      /\ Weight(R \cup {pkt}) <= Weight(R) + Length(pkt)
  <2>1. R \in SUBSET Packet
    OBVIOUS
  <2> HIDE DEF R
  <2> QED BY <1>5, <2>1, WeightFacts
<1>7. Weight(R \cup {pkt}) <= Weight(F)
  <2> HIDE DEF R
  <2> QED BY <1>2, <1>5, <1>6, SMT
<1>8. Account(off, R \cup {pkt}, L, G \cup BytesOf(old))
  BY <1>1, <1>2, <1>3, <1>4, <1>6 DEF Account
<1> QED BY <1>3, <1>6, <1>7, <1>8

\* A packet that arrived is acknowledged.
LEMMA PacketAcked ==
    ASSUME NEW off \in Nat, NEW F \in SUBSET Packet, NEW L \in SUBSET Packet,
           NEW G \in SUBSET Nat, Account(off, F, L, G),
           NEW pkt \in F, pkt.arrived
    PROVE  /\ Account(off, F \ {pkt}, L, G)
           /\ Weight(F \ {pkt}) \in Nat /\ Weight(F \ {pkt}) <= Weight(F)
<1>1. IsFiniteSet(F) /\ IsFiniteSet(L)
  BY DEF Account
<1>2. /\ Weight(F) \in Nat /\ IsFiniteSet(F \ {pkt}) /\ Weight(F \ {pkt}) \in Nat
      /\ Weight(F) = Weight(F \ {pkt}) + Length(pkt) /\ Length(pkt) \in 2..MaxDatagram
  BY <1>1, WeightFacts
<1>3. Account(off, F \ {pkt}, L, G)
  BY <1>2 DEF Account
<1> QED BY <1>2, <1>3, SMT

\* A packet is declared lost, whether it arrived or not.
LEMMA PacketLost ==
    ASSUME NEW off \in Nat, NEW F \in SUBSET Packet, NEW L \in SUBSET Packet,
           NEW G \in SUBSET Nat, Account(off, F, L, G), NEW pkt \in F
    PROVE  /\ Account(off, F \ {pkt}, L \cup {pkt}, G)
           /\ Weight(F \ {pkt}) + Weight(L \cup {pkt}) <= Weight(F) + Weight(L)
<1>1. IsFiniteSet(F) /\ IsFiniteSet(L)
  BY DEF Account
<1>2. /\ Weight(F) \in Nat /\ IsFiniteSet(F \ {pkt}) /\ Weight(F \ {pkt}) \in Nat
      /\ Weight(F) = Weight(F \ {pkt}) + Length(pkt)
  BY <1>1, WeightFacts
<1>3. /\ Weight(L) \in Nat /\ IsFiniteSet(L \cup {pkt}) /\ Weight(L \cup {pkt}) \in Nat
      /\ Weight(L \cup {pkt}) <= Weight(L) + Length(pkt) /\ Length(pkt) \in 2..MaxDatagram
  BY <1>1, WeightFacts
<1>4. Account(off, F \ {pkt}, L \cup {pkt}, G)
  BY <1>2, <1>3 DEF Account
<1> QED BY <1>2, <1>3, <1>4, SMT
-----------------------------------------------------------------------------
\* The steps of the packet layer.

\* The window of custom_template.go is a constant.
LEMMA FixedWindow ==
    ASSUME NEW p \in Paths, cc[p] = "fixed"
    PROVE  /\ GetCongestionWindow(p) = MaxDatagram * WindowFactor
           /\ MaxDatagram * WindowFactor \in Nat \ {0}
<1>1. GetCongestionWindow(p) = MaxDatagram * WindowFactor
  BY DEF GetCongestionWindow
<1>2. MaxDatagram * WindowFactor \in Nat \ {0}
  BY CCAssumption, SMT
<1> QED BY <1>1, <1>2

\* A controller's callbacks keep the controllers and their types.
LEMMA CallbackTypes ==
    ASSUME CCTypeOK, NEW p \in Paths, OnPacketAcked(p) \/ OnCongestionEvent(p)
    PROVE  CCTypeOK' /\ cc' = cc
BY DEF CCTypeOK, OnPacketAcked, OnCongestionEvent, CubicAdapts

\* A step of path p's packets that keeps the account and the window.
LEMMA NetStep ==
    ASSUME SendPathInv, NEW p \in Paths,
           flight' \in [Paths -> SUBSET Packet], lost' \in [Paths -> SUBSET Packet],
           got' \in [Paths -> SUBSET Nat], sendOff' \in [Paths -> Nat],
           \A q \in Paths \ {p} : /\ flight'[q] = flight[q] /\ lost'[q] = lost[q]
                                  /\ got'[q] = got[q] /\ sendOff'[q] = sendOff[q],
           Account(sendOff'[p], flight'[p], lost'[p], got'[p]),
           sendOff[p] <= sendOff'[p], sendOff'[p] <= frames[p] * FrameLen,
           cc[p] = "fixed" => Weight(flight'[p]) + Weight(lost'[p])
                                < MaxDatagram * WindowFactor + MaxDatagram,
           frames[p] # 0 \/ flight[p] # {} \/ lost[p] # {},
           UNCHANGED <<mvars, wvars, pvars, cc>>, CCTypeOK', losses' \in 0..MaxLosses
    PROVE  SendPathInv'
<1>1. ControlTypes /\ StartInv /\ WriterInv /\ PacketInv /\ WindowInv /\ PrinterInv
  BY DEF SendPathInv
<1>2. UNCHANGED <<cpc, ci, share, wpc, frames, chunksSent, sent, current, done, last, ppc>>
  BY DEF mvars, wvars, pvars
<1>3. ControlTypes'
  BY <1>1, <1>2 DEF ControlTypes
<1>4. StartInv'
  BY <1>1, <1>2 DEF StartInv
<1>5. WriterInv'
  <2>1. ASSUME NEW q \in Paths
        PROVE  /\ sendOff'[q] <= frames[q] * FrameLen
               /\ chunksSent[q] * FrameLen < sendOff'[q] + MaxDatagram
    <3>1. /\ sendOff[q] \in Nat /\ sendOff'[q] \in Nat /\ sendOff[q] <= frames[q] * FrameLen
          /\ chunksSent[q] * FrameLen < sendOff[q] + MaxDatagram
          /\ chunksSent[q] \in Nat
      BY <1>1 DEF WriterInv
    <3>2. chunksSent[q] * FrameLen \in Nat
      BY <3>1, SendPathAssumption, SMT
    <3>3. CASE q = p
      BY <3>1, <3>2, <3>3, CCAssumption, SMT
    <3>4. CASE q # p
      BY <3>1, <3>4
    <3> QED BY <3>3, <3>4
  <2> QED BY <1>1, <1>2, <2>1 DEF WriterInv
<1>6. PacketInv'
  BY <1>1 DEF PacketInv
<1>7. WindowInv'
  <2> SUFFICES ASSUME NEW q \in Paths, cc'[q] = "fixed"
               PROVE  Weight(flight'[q]) + Weight(lost'[q])
                        < GetCongestionWindow(q)' + MaxDatagram
    BY DEF WindowInv, Weight, Length
  <2>1. cc[q] = "fixed" /\ GetCongestionWindow(q)' = MaxDatagram * WindowFactor
        /\ GetCongestionWindow(q) = MaxDatagram * WindowFactor
    BY DEF GetCongestionWindow
  <2>2. CASE q = p
    BY <2>1, <2>2
  <2>3. CASE q # p
    BY <1>1, <2>1, <2>3 DEF WindowInv
  <2> QED BY <2>2, <2>3
<1>8. PrinterInv'
  BY <1>1, <1>2 DEF PrinterInv, PrinterTypeOK
<1> QED BY <1>3, <1>4, <1>5, <1>6, <1>7, <1>8 DEF SendPathInv

PathState(p) ==
    /\ flight \in [Paths -> SUBSET Packet] /\ lost \in [Paths -> SUBSET Packet]
    /\ got \in [Paths -> SUBSET Nat] /\ sendOff \in [Paths -> Nat]
    /\ frames[p] \in Nat /\ frames[p] * FrameLen \in Nat
    /\ sendOff[p] <= frames[p] * FrameLen
    /\ IsFiniteSet(flight[p]) /\ IsFiniteSet(lost[p])
    /\ Account(sendOff[p], flight[p], lost[p], got[p])
    /\ Weight(flight[p]) \in Nat /\ Weight(lost[p]) \in Nat
    /\ cc[p] = "fixed" => Weight(flight[p]) + Weight(lost[p])
                            < MaxDatagram * WindowFactor + MaxDatagram
    /\ CCTypeOK /\ losses \in 0..MaxLosses

\* What the invariant says about one path.
LEMMA PathFacts ==
    ASSUME SendPathInv, NEW p \in Paths
    PROVE  PathState(p)
<1>1. /\ flight \in [Paths -> SUBSET Packet] /\ lost \in [Paths -> SUBSET Packet]
      /\ got \in [Paths -> SUBSET Nat] /\ sendOff \in [Paths -> Nat]
      /\ frames[p] \in Nat /\ sendOff[p] <= frames[p] * FrameLen
      /\ Account(sendOff[p], flight[p], lost[p], got[p])
      /\ CCTypeOK /\ losses \in 0..MaxLosses
  BY DEF SendPathInv, PacketInv, WriterInv, ControlTypes
<1>2. frames[p] * FrameLen \in Nat
  BY <1>1, SendPathAssumption, SMT
<1>3. IsFiniteSet(flight[p]) /\ IsFiniteSet(lost[p])
  BY <1>1 DEF Account
<1>4. Weight(flight[p]) \in Nat /\ Weight(lost[p]) \in Nat
  BY <1>1, <1>3, WeightFacts
<1>5. cc[p] = "fixed" => Weight(flight[p]) + Weight(lost[p])
                          < MaxDatagram * WindowFactor + MaxDatagram
  BY FixedWindow DEF SendPathInv, WindowInv
<1> QED BY <1>1, <1>2, <1>3, <1>4, <1>5 DEF PathState

\* New data goes out only while the window has room and nothing is lost.
LEMMA SendNewKeeps ==
    ASSUME SendPathInv, NEW p \in Paths, SendNew(p)
    PROVE  SendPathInv'
<1> DEFINE left == frames[p] * FrameLen - sendOff[p]
           k == Min({left, MaxDatagram - 1})
           pkt == [off |-> sendOff[p], len |-> k, arrived |-> FALSE]
<1>1. /\ left > 0 /\ lost[p] = {} /\ CanSend(p, BytesInFlight(p))
      /\ flight' = [flight EXCEPT ![p] = @ \cup {pkt}]
      /\ sendOff' = [sendOff EXCEPT ![p] = @ + k]
      /\ UNCHANGED <<mvars, wvars, lost, losses, got, ccvars, pvars>>
  BY DEF SendNew
<1>2. PathState(p)
  BY PathFacts
<1>3. k \in 1..(MaxDatagram - 1) /\ k <= left
  <2>1. left \in Int /\ MaxDatagram - 1 \in Int /\ MaxDatagram - 1 >= 1
    BY <1>2, CCAssumption, SMT DEF PathState
  <2>2. left > 0
    BY <1>1
  <2> HIDE DEF left
  <2>3. k \in {left, MaxDatagram - 1} /\ k <= left /\ k <= MaxDatagram - 1
    BY <2>1, MinOfTwo
  <2> QED BY <2>1, <2>2, <2>3, SMT
<1> HIDE DEF k
<1>4. pkt \in Packet /\ Account(sendOff[p] + k, flight[p] \cup {pkt}, lost[p], got[p])
  BY <1>2, <1>3, NewPacket DEF PathState
<1> HIDE DEF pkt
<1>5. /\ flight' \in [Paths -> SUBSET Packet] /\ lost' \in [Paths -> SUBSET Packet]
      /\ got' \in [Paths -> SUBSET Nat] /\ sendOff' \in [Paths -> Nat]
  BY <1>1, <1>2, <1>3, <1>4 DEF PathState
<1>6. /\ flight'[p] = flight[p] \cup {pkt} /\ lost'[p] = {} /\ got'[p] = got[p]
      /\ sendOff'[p] = sendOff[p] + k
      /\ \A q \in Paths \ {p} : /\ flight'[q] = flight[q] /\ lost'[q] = lost[q]
                                /\ got'[q] = got[q] /\ sendOff'[q] = sendOff[q]
  BY <1>1, <1>2 DEF PathState
<1>7. sendOff[p] <= sendOff'[p] /\ sendOff'[p] <= frames[p] * FrameLen /\ frames[p] # 0
  BY <1>1, <1>2, <1>3, <1>6, SendPathAssumption, SMT DEF PathState
<1>8. ASSUME cc[p] = "fixed"
      PROVE  Weight(flight'[p]) + Weight(lost'[p]) < MaxDatagram * WindowFactor + MaxDatagram
  <2>1. Weight(flight[p]) < MaxDatagram * WindowFactor
    BY <1>1, <1>8, FixedWindow DEF CanSend, BytesInFlight, Weight
  <2>2. Weight({}) = 0
    BY SumEmpty DEF Weight
  <2>3. /\ Weight(flight[p]) \in Nat /\ Weight(flight[p] \cup {pkt}) \in Nat
        /\ Length(pkt) \in 2..MaxDatagram
        /\ Weight(flight[p] \cup {pkt}) <= Weight(flight[p]) + Length(pkt)
    BY <1>2, <1>4, WeightFacts DEF PathState
  <2>4. MaxDatagram * WindowFactor \in Nat /\ MaxDatagram \in Nat
    BY <1>8, FixedWindow, CCAssumption
  <2> QED BY <1>6, <2>1, <2>2, <2>3, <2>4, SMT
<1>9. Account(sendOff'[p], flight'[p], lost'[p], got'[p])
  BY <1>1, <1>4, <1>6
<1>10. UNCHANGED <<mvars, wvars, pvars, cc>> /\ CCTypeOK' /\ losses' \in 0..MaxLosses
  BY <1>1, <1>2 DEF PathState, ccvars, CCTypeOK
<1> QED BY <1>5, <1>6, <1>7, <1>8, <1>9, <1>10, NetStep

\* A step that moves or marks one packet and sends no new data.
LEMMA MoveKeeps ==
    ASSUME SendPathInv, NEW p \in Paths,
           NEW F \in SUBSET Packet, NEW L \in SUBSET Packet, NEW G \in SUBSET Nat,
           flight' = [flight EXCEPT ![p] = F], lost' = [lost EXCEPT ![p] = L],
           got' = [got EXCEPT ![p] = G], sendOff' = sendOff,
           Account(sendOff[p], F, L, G),
           Weight(F) + Weight(L) <= Weight(flight[p]) + Weight(lost[p]),
           flight[p] # {} \/ lost[p] # {},
           UNCHANGED <<mvars, wvars, pvars, cc>>, CCTypeOK', losses' \in 0..MaxLosses
    PROVE  SendPathInv'
<1>1. PathState(p)
  BY PathFacts
<1>2. /\ flight' \in [Paths -> SUBSET Packet] /\ lost' \in [Paths -> SUBSET Packet]
      /\ got' \in [Paths -> SUBSET Nat] /\ sendOff' \in [Paths -> Nat]
  BY <1>1 DEF PathState
<1>3. /\ flight'[p] = F /\ lost'[p] = L /\ got'[p] = G /\ sendOff'[p] = sendOff[p]
      /\ \A q \in Paths \ {p} : /\ flight'[q] = flight[q] /\ lost'[q] = lost[q]
                                /\ got'[q] = got[q] /\ sendOff'[q] = sendOff[q]
  BY <1>1 DEF PathState
<1>4. sendOff[p] <= sendOff'[p] /\ sendOff'[p] <= frames[p] * FrameLen
  BY <1>1 DEF PathState
<1>5. ASSUME cc[p] = "fixed"
      PROVE  Weight(flight'[p]) + Weight(lost'[p]) < MaxDatagram * WindowFactor + MaxDatagram
  <2>1. IsFiniteSet(F) /\ IsFiniteSet(L)
    BY DEF Account
  <2>2. Weight(F) \in Nat /\ Weight(L) \in Nat
    BY <2>1, WeightFacts
  <2>3. MaxDatagram * WindowFactor \in Nat /\ MaxDatagram \in Nat
    BY <1>5, FixedWindow, CCAssumption
  <2>4. /\ Weight(flight[p]) \in Nat /\ Weight(lost[p]) \in Nat
        /\ Weight(flight[p]) + Weight(lost[p]) < MaxDatagram * WindowFactor + MaxDatagram
    BY <1>1, <1>5 DEF PathState
  <2> QED BY <1>3, <2>2, <2>3, <2>4, SMT
<1>6. Account(sendOff'[p], flight'[p], lost'[p], got'[p])
  BY <1>3
<1> QED BY <1>2, <1>3, <1>4, <1>5, <1>6, NetStep

\* Losing, resending, arriving and acknowledging.
LEMMA PacketKeeps ==
    ASSUME SendPathInv, NEW p \in Paths, PacketStep(p)
    PROVE  SendPathInv'
<1>1. PathState(p)
  BY PathFacts
<1>2. /\ flight[p] \in SUBSET Packet /\ lost[p] \in SUBSET Packet
      /\ got[p] \in SUBSET Nat /\ sendOff[p] \in Nat
      /\ Account(sendOff[p], flight[p], lost[p], got[p])
      /\ Weight(flight[p]) \in Nat /\ Weight(lost[p]) \in Nat
  BY <1>1 DEF PathState
<1>3. /\ flight = [flight EXCEPT ![p] = flight[p]] /\ lost = [lost EXCEPT ![p] = lost[p]]
      /\ got = [got EXCEPT ![p] = got[p]]
  BY <1>1 DEF PathState
<1>4. CASE SendNew(p)
  BY <1>4, SendNewKeeps
<1>5. CASE SendAgain(p)
  <2>1. UNCHANGED <<mvars, wvars, sendOff, losses, got, ccvars, pvars>>
    BY <1>5 DEF SendAgain
  <2>2. PICK old \in lost[p] :
           /\ lost' = [lost EXCEPT ![p] = lost[p] \ {old}]
           /\ flight' = [flight EXCEPT ![p] = flight[p] \cup {[old EXCEPT !.arrived = FALSE]}]
    BY <1>5 DEF SendAgain
  <2> DEFINE pkt == [old EXCEPT !.arrived = FALSE]
             F == flight[p] \cup {pkt}
             L == lost[p] \ {old}
  <2>3. pkt \in Packet /\ pkt.off = old.off /\ pkt.len = old.len /\ ~pkt.arrived
    BY <1>2, Marked
  <2>4. flight' = [flight EXCEPT ![p] = F] /\ lost' = [lost EXCEPT ![p] = L]
    BY <2>2
  <2> HIDE DEF pkt
  <2>5. /\ Account(sendOff[p], F, L, got[p])
        /\ Weight(F) + Weight(L) <= Weight(flight[p]) + Weight(lost[p])
    BY <1>2, <2>3, PacketAgain
  <2>6. F \in SUBSET Packet /\ L \in SUBSET Packet
    BY <1>2, <2>3
  <2>7. got' = [got EXCEPT ![p] = got[p]] /\ sendOff' = sendOff
    BY <1>3, <2>1
  <2>8. UNCHANGED <<mvars, wvars, pvars, cc>> /\ CCTypeOK' /\ losses' \in 0..MaxLosses
    BY <1>1, <2>1 DEF PathState, ccvars, CCTypeOK
  <2>9. lost[p] # {}
    OBVIOUS
  <2> HIDE DEF F, L
  <2> QED BY <1>2, <2>4, <2>5, <2>6, <2>7, <2>8, <2>9, MoveKeeps
<1>6. CASE Arrives(p)
  <2>1. UNCHANGED <<mvars, wvars, sendOff, lost, losses, ccvars, pvars>>
    BY <1>6 DEF Arrives
  <2>2. PICK old \in flight[p] :
           /\ flight' = [flight EXCEPT ![p] =
                           (flight[p] \ {old}) \cup {[old EXCEPT !.arrived = TRUE]}]
           /\ got' = [got EXCEPT ![p] = got[p] \cup BytesOf(old)]
    BY <1>6 DEF Arrives, BytesOf
  <2> DEFINE pkt == [old EXCEPT !.arrived = TRUE]
             F == (flight[p] \ {old}) \cup {pkt}
             G == got[p] \cup BytesOf(old)
  <2>3. pkt \in Packet /\ pkt.off = old.off /\ pkt.len = old.len
    BY <1>2, Marked
  <2>4. flight' = [flight EXCEPT ![p] = F] /\ got' = [got EXCEPT ![p] = G]
    BY <2>2
  <2> HIDE DEF pkt
  <2>5. /\ G \in SUBSET Nat /\ Account(sendOff[p], F, lost[p], G)
        /\ Weight(F) \in Nat /\ Weight(F) <= Weight(flight[p])
    <3>1. /\ got[p] \cup BytesOf(old) \in SUBSET Nat
          /\ Account(sendOff[p], (flight[p] \ {old}) \cup {pkt}, lost[p], got[p] \cup BytesOf(old))
          /\ Weight((flight[p] \ {old}) \cup {pkt}) \in Nat
          /\ Weight((flight[p] \ {old}) \cup {pkt}) <= Weight(flight[p])
      <4> HIDE DEF F, G
      <4> QED BY <1>2, <2>3, PacketArrived
    <3> QED BY <3>1
  <2>6. F \in SUBSET Packet
    BY <1>2, <2>3
  <2>7. lost' = [lost EXCEPT ![p] = lost[p]] /\ sendOff' = sendOff
    BY <1>3, <2>1
  <2>8. UNCHANGED <<mvars, wvars, pvars, cc>> /\ CCTypeOK' /\ losses' \in 0..MaxLosses
    BY <1>1, <2>1 DEF PathState, ccvars, CCTypeOK
  <2>9. flight[p] # {}
    OBVIOUS
  <2> HIDE DEF F, G
  <2>10. Weight(F) + Weight(lost[p]) <= Weight(flight[p]) + Weight(lost[p])
    BY <1>2, <2>5, SMT
  <2> QED BY <1>2, <2>4, <2>5, <2>6, <2>7, <2>8, <2>9, <2>10, MoveKeeps
<1>7. CASE Acked(p)
  <2>1. UNCHANGED <<mvars, wvars, sendOff, lost, losses, got, pvars>> /\ OnPacketAcked(p)
    BY <1>7 DEF Acked
  <2>2. PICK pkt \in flight[p] : /\ pkt.arrived
                                 /\ flight' = [flight EXCEPT ![p] = flight[p] \ {pkt}]
    BY <1>7 DEF Acked
  <2> DEFINE F == flight[p] \ {pkt}
  <2>3. flight' = [flight EXCEPT ![p] = F] /\ F \in SUBSET Packet
    BY <1>2, <2>2
  <2>4. /\ Account(sendOff[p], F, lost[p], got[p])
        /\ Weight(F) \in Nat /\ Weight(F) <= Weight(flight[p])
    BY <1>2, <2>2, PacketAcked
  <2>5. /\ lost' = [lost EXCEPT ![p] = lost[p]] /\ got' = [got EXCEPT ![p] = got[p]]
        /\ sendOff' = sendOff
    BY <1>3, <2>1
  <2>6. UNCHANGED <<mvars, wvars, pvars, cc>> /\ CCTypeOK' /\ losses' \in 0..MaxLosses
    BY <1>1, <2>1, CallbackTypes DEF PathState
  <2>7. flight[p] # {}
    OBVIOUS
  <2> HIDE DEF F
  <2>8. Weight(F) + Weight(lost[p]) <= Weight(flight[p]) + Weight(lost[p])
    BY <1>2, <2>4, SMT
  <2> QED BY <1>2, <2>3, <2>4, <2>5, <2>6, <2>7, <2>8, MoveKeeps
<1>8. CASE DeclaredLost(p)
  <2>1. /\ losses < MaxLosses /\ losses' = losses + 1 /\ OnCongestionEvent(p)
        /\ UNCHANGED <<mvars, wvars, sendOff, got, pvars>>
    BY <1>8 DEF DeclaredLost
  <2>2. PICK pkt \in flight[p] : /\ flight' = [flight EXCEPT ![p] = flight[p] \ {pkt}]
                                 /\ lost' = [lost EXCEPT ![p] = lost[p] \cup {pkt}]
    BY <1>8 DEF DeclaredLost
  <2> DEFINE F == flight[p] \ {pkt}
             L == lost[p] \cup {pkt}
  <2>3. /\ flight' = [flight EXCEPT ![p] = F] /\ lost' = [lost EXCEPT ![p] = L]
        /\ F \in SUBSET Packet /\ L \in SUBSET Packet
    BY <1>2, <2>2
  <2>4. /\ Account(sendOff[p], F, L, got[p])
        /\ Weight(F) + Weight(L) <= Weight(flight[p]) + Weight(lost[p])
    BY <1>2, PacketLost
  <2>5. got' = [got EXCEPT ![p] = got[p]] /\ sendOff' = sendOff
    BY <1>3, <2>1
  <2>6. losses' \in 0..MaxLosses
    BY <1>1, <2>1, SendPathAssumption, SMT DEF PathState
  <2>7. UNCHANGED <<mvars, wvars, pvars, cc>> /\ CCTypeOK'
    BY <1>1, <2>1, CallbackTypes DEF PathState
  <2>8. flight[p] # {}
    OBVIOUS
  <2> HIDE DEF F, L
  <2> QED BY <1>2, <2>3, <2>4, <2>5, <2>6, <2>7, <2>8, MoveKeeps
<1> QED BY <1>4, <1>5, <1>6, <1>7, <1>8, Zenon DEF PacketStep

-----------------------------------------------------------------------------
\* The writers, the printer and main.

\* Steps that leave the packets and the controllers alone.
LEMMA QuietNet ==
    ASSUME PacketInv, WindowInv, UNCHANGED <<flight, lost, got, sendOff, cc, cubicWindow>>
    PROVE  PacketInv' /\ WindowInv'
<1>1. PacketInv'
  BY DEF PacketInv
<1>2. WindowInv'
  BY DEF WindowInv, Weight, Length, GetCongestionWindow
<1> QED BY <1>1, <1>2

\* A writer starts a frame only after the last one was handed over but for
\* less than a datagram, and counts it before it reports.
LEMMA WriterKeeps ==
    ASSUME SendPathInv, NEW p \in Paths, WriterStep(p)
    PROVE  SendPathInv'
<1>1. ControlTypes /\ StartInv /\ WriterInv /\ PacketInv /\ WindowInv /\ PrinterInv
  BY DEF SendPathInv
<1>2. UNCHANGED <<mvars, nvars, ccvars>>
  BY DEF WriterStep, StartWrite, WriteReturns, Report
<1>3. UNCHANGED <<cpc, ci, share, sendOff, flight, lost, losses, got, cc, inRecovery, cubicWindow>>
  BY <1>2 DEF mvars, nvars, ccvars
<1>4. ControlTypes' /\ PacketInv' /\ WindowInv'
  BY <1>1, <1>3, QuietNet DEF ControlTypes, CCTypeOK
<1>5. /\ frames[p] \in Nat /\ chunksSent[p] \in Nat /\ sendOff[p] \in Nat /\ share[p] \in Nat
      /\ frames[p] = chunksSent[p] + (IF wpc[p] = "write" THEN 1 ELSE 0)
      /\ frames[p] <= share[p] /\ sendOff[p] <= frames[p] * FrameLen
      /\ chunksSent[p] * FrameLen < sendOff[p] + MaxDatagram
  BY <1>1 DEF WriterInv, ControlTypes
<1>6. CASE StartWrite(p)
  <2>1. /\ cpc = "send" /\ wpc[p] = "idle" /\ frames[p] < share[p]
        /\ frames' = [frames EXCEPT ![p] = @ + 1]
        /\ wpc' = [wpc EXCEPT ![p] = "write"]
        /\ UNCHANGED <<chunksSent, sent, current, done, last, ppc>>
    BY <1>6 DEF StartWrite, pvars
  <2>2. frames[p] + 1 <= share[p] /\ frames[p] + 1 = chunksSent[p] + 1
    BY <1>5, <2>1, SMT
  <2>3. sendOff[p] <= (frames[p] + 1) * FrameLen
    <3>1. frames[p] * FrameLen \in Nat /\ frames[p] * FrameLen <= (frames[p] + 1) * FrameLen
          /\ (frames[p] + 1) * FrameLen \in Nat
      BY <1>5, SendPathAssumption, SMT
    <3> QED BY <1>5, <3>1, SMT
  <2>4. WriterInv'
    BY <1>1, <1>3, <2>1, <2>2, <2>3 DEF WriterInv
  <2>5. StartInv' /\ PrinterInv'
    BY <1>1, <1>3, <2>1 DEF StartInv, PrinterInv, PrinterTypeOK
  <2> QED BY <1>4, <2>4, <2>5 DEF SendPathInv
<1>7. CASE WriteReturns(p)
  <2>1. /\ wpc[p] = "write" /\ frames[p] * FrameLen - sendOff[p] < MaxDatagram
        /\ chunksSent' = [chunksSent EXCEPT ![p] = @ + 1]
        /\ wpc' = [wpc EXCEPT ![p] = "report"]
        /\ UNCHANGED <<frames, sent, current, done, last, ppc>>
    BY <1>7 DEF WriteReturns, pvars
  <2>2. frames[p] = chunksSent[p] + 1
    BY <1>5, <2>1
  <2>3. (chunksSent[p] + 1) * FrameLen < sendOff[p] + MaxDatagram
    <3>1. frames[p] * FrameLen \in Nat /\ MaxDatagram \in Nat
      BY <1>5, SendPathAssumption, CCAssumption, SMT
    <3>2. frames[p] * FrameLen < sendOff[p] + MaxDatagram
      BY <1>5, <2>1, <3>1, SMT
    <3> QED BY <2>2, <3>2
  <2>4. WriterInv'
    BY <1>1, <1>3, <2>1, <2>2, <2>3 DEF WriterInv
  <2>5. StartInv' /\ PrinterInv'
    BY <1>1, <1>3, <2>1 DEF StartInv, PrinterInv, PrinterTypeOK
  <2> QED BY <1>4, <2>4, <2>5 DEF SendPathInv
<1>8. CASE Report(p)
  <2>1. /\ wpc[p] = "report" /\ sent' = sent + DataLen
        /\ wpc' = [wpc EXCEPT ![p] = "idle"]
        /\ current' = IF current = << >> THEN << sent' >> ELSE current
        /\ UNCHANGED <<frames, chunksSent, done, last, ppc>>
    BY <1>8 DEF Report, Update
  <2>2. WriterInv'
    BY <1>1, <1>3, <2>1 DEF WriterInv
  <2>3. StartInv'
    BY <1>1, <1>3, <2>1 DEF StartInv
  <2>4. PrinterInv'
    <3>1. sent \in Nat /\ last \in Nat /\ last <= sent /\ current \in Seq(Nat) /\ Len(current) <= 1
          /\ (current # << >> => last < Head(current) /\ Head(current) <= sent)
      BY <1>1 DEF PrinterInv, PrinterTypeOK
    <3>2. sent' \in Nat /\ sent < sent' /\ last < sent'
      BY <2>1, <3>1, SendPathAssumption, SMT
    <3>3. CASE current = << >>
      <4>1. current' = << sent' >> /\ Head(current') = sent' /\ Len(current') = 1
            /\ current' \in Seq(Nat)
        BY <2>1, <3>2, <3>3
      <4> QED BY <1>1, <2>1, <3>1, <3>2, <4>1, SMT DEF PrinterInv, PrinterTypeOK
    <3>4. CASE current # << >>
      <4>1. current' = current /\ Head(current) \in Nat
        BY <2>1, <3>1, <3>4
      <4>2. last < Head(current) /\ Head(current) <= sent'
        BY <3>1, <3>2, <3>4, <4>1, SMT
      <4> QED BY <1>1, <2>1, <3>1, <3>2, <4>1, <4>2 DEF PrinterInv, PrinterTypeOK
    <3> QED BY <3>3, <3>4
  <2> QED BY <1>4, <2>2, <2>3, <2>4 DEF SendPathInv
<1> QED BY <1>6, <1>7, <1>8 DEF WriterStep

\* The printer takes the count out of the channel.
LEMMA PrinterKeeps ==
    ASSUME SendPathInv, PrinterStep
    PROVE  SendPathInv'
<1>1. ControlTypes /\ StartInv /\ WriterInv /\ PacketInv /\ WindowInv /\ PrinterInv
  BY DEF SendPathInv
<1>2. UNCHANGED <<cpc, ci, share, wpc, frames, chunksSent, sent, sendOff, flight, lost,
                  losses, got, cc, inRecovery, cubicWindow>>
  BY DEF PrinterStep, mvars, wvars, nvars, ccvars
<1>3. ControlTypes' /\ StartInv' /\ WriterInv'
  BY <1>1, <1>2 DEF ControlTypes, CCTypeOK, StartInv, WriterInv
<1>4. PacketInv' /\ WindowInv'
  BY <1>1, <1>2, QuietNet
<1>5. PrinterInv'
  <2>1. CASE TakeCount
    <3>1. /\ current # << >> /\ last' = Head(current) /\ current' = << >>
          /\ UNCHANGED <<done, ppc>>
      BY <2>1 DEF TakeCount
    <3>2. current \in Seq(Nat) /\ Head(current) \in Nat /\ Head(current) <= sent
      BY <1>1, <3>1 DEF PrinterInv, PrinterTypeOK
    <3>3. << >> \in Seq(Nat) /\ Len(<< >>) <= 1
      OBVIOUS
    <3> QED BY <1>1, <1>2, <3>1, <3>2, <3>3 DEF PrinterInv, PrinterTypeOK
  <2>2. CASE SelectDone
    BY <1>1, <1>2, <2>2 DEF SelectDone, PrinterInv, PrinterTypeOK
  <2> QED BY <2>1, <2>2 DEF PrinterStep
<1> QED BY <1>3, <1>4, <1>5 DEF SendPathInv

\* No packets weigh nothing, which is within any window.
LEMMA EmptyPath ==
    /\ Weight({}) = 0
    /\ MaxDatagram * WindowFactor + MaxDatagram > 0
<1>1. Weight({}) = 0
  BY SumEmpty DEF Weight
<1>2. MaxDatagram * WindowFactor + MaxDatagram > 0
  BY CCAssumption, SMT
<1> QED BY <1>1, <1>2

\* Main dials path after path, starts the writers and closes the printer.
LEMMA MainKeeps ==
    ASSUME SendPathInv, MainStep
    PROVE  SendPathInv'
<1>1. ControlTypes /\ StartInv /\ WriterInv /\ PacketInv /\ WindowInv /\ PrinterInv
  BY DEF SendPathInv
<1>2. UNCHANGED <<share, wpc, frames, chunksSent, sent, sendOff, flight, lost, losses, got>>
  BY DEF MainStep, ParseCC, DialPath, DialFails, StartSending, SendDone, mvars, wvars, nvars
<1>3. WriterInv'
  BY <1>1, <1>2 DEF WriterInv
<1>4. CASE DialPath
  <2> DEFINE name == ExpandCC(spec)[ci]
  <2>1. /\ cpc = "dial" /\ ci < NumPaths /\ name \in Registered
        /\ cc' = [cc EXCEPT ![ci] = name]
        /\ ci' = ci + 1
        /\ UNCHANGED <<cpc, inRecovery, cubicWindow, current, done, last, ppc>>
    BY <1>4 DEF DialPath, NewController, Get, pvars
  <2> HIDE DEF name
  <2>2. ci' \in 0..NumPaths
    BY <1>1, <2>1, PathAssumption, SMT DEF ControlTypes
  <2>3. CCTypeOK'
    BY <1>1, <2>1 DEF ControlTypes, CCTypeOK
  <2>4. ControlTypes'
    BY <1>1, <1>2, <2>1, <2>2, <2>3 DEF ControlTypes
  <2>5. StartInv'
    BY <1>1, <1>2, <2>1 DEF StartInv
  <2>6. PacketInv'
    BY <1>1, <1>2 DEF PacketInv
  <2>7. WindowInv'
    <3> SUFFICES ASSUME NEW q \in Paths, cc'[q] = "fixed"
                 PROVE  Weight(flight'[q]) + Weight(lost'[q])
                          < GetCongestionWindow(q)' + MaxDatagram
      BY DEF WindowInv, Weight, Length
    <3>1. flight'[q] = {} /\ lost'[q] = {}
      BY <1>1, <1>2, <2>1 DEF StartInv
    <3>2. GetCongestionWindow(q)' = MaxDatagram * WindowFactor
      BY DEF GetCongestionWindow
    <3> QED BY <3>1, <3>2, EmptyPath, SMT
  <2>8. PrinterInv'
    BY <1>1, <1>2, <2>1 DEF PrinterInv, PrinterTypeOK
  <2> QED BY <1>3, <2>4, <2>5, <2>6, <2>7, <2>8 DEF SendPathInv
<1>5. ASSUME ParseCC \/ DialFails \/ StartSending \/ SendDone PROVE SendPathInv'
  <2>1. /\ UNCHANGED <<ci, cc, inRecovery, cubicWindow, current, last>>
        /\ cpc' \in {"dial", "fatal", "send", "sent"}
        /\ cpc' \in {"dial", "fatal"} => cpc \in {"start", "dial"}
    BY <1>5 DEF ParseCC, DialFails, StartSending, SendDone, ccvars, pvars,
        NewProgressPrinter, Close
  <2>2. done' \in BOOLEAN /\ ppc' \in {"off", "loop", "ended"}
    BY <1>1, <1>5 DEF ParseCC, DialFails, StartSending, SendDone, pvars,
        NewProgressPrinter, Close, PrinterInv, PrinterTypeOK
  <2>3. ControlTypes' /\ StartInv'
    BY <1>1, <1>2, <2>1 DEF ControlTypes, CCTypeOK, StartInv
  <2>4. PacketInv' /\ WindowInv'
    BY <1>1, <1>2, <2>1, QuietNet
  <2>5. PrinterInv'
    BY <1>1, <1>2, <2>1, <2>2 DEF PrinterInv, PrinterTypeOK
  <2> QED BY <1>3, <2>3, <2>4, <2>5 DEF SendPathInv
<1> QED BY <1>4, <1>5 DEF MainStep

\* The invariant holds when main starts ...
LEMMA SendPathInitially == Init => SendPathInv
<1> SUFFICES ASSUME Init PROVE SendPathInv
  OBVIOUS
<1>1. ControlTypes /\ StartInv
  BY PathAssumption, SendPathAssumption DEF Init, CCInit, ControlTypes, CCTypeOK, StartInv
<1>2. WriterInv
  <2>1. 0 * FrameLen = 0 /\ 0 < MaxDatagram /\ 0 + MaxDatagram = MaxDatagram
    BY SendPathAssumption, CCAssumption, SMT
  <2>2. \A p \in Paths : share[p] \in Nat /\ 0 <= share[p]
    BY <1>1 DEF ControlTypes
  <2> QED BY <2>1, <2>2 DEF Init, WriterInv
<1>3. PacketInv
  <2>1. Account(0, {}, {}, {})
    BY FS_EmptySet DEF Account
  <2> QED BY <2>1 DEF Init, PacketInv
<1>4. WindowInv
  BY DEF Init, CCInit, WindowInv, NoCC
<1>5. PrinterInv
  <2>1. /\ current = << >> /\ done = FALSE /\ last = 0 /\ ppc = "off" /\ sent = 0
    BY DEF Init, PrinterInit
  <2>2. << >> \in Seq(Nat) /\ Len(<< >>) <= 1
    OBVIOUS
  <2>3. current \in Seq(Nat) /\ Len(current) <= 1 /\ done \in BOOLEAN
        /\ ppc \in {"off", "loop", "ended"}
    BY <2>1, <2>2, Zenon
  <2>4. last \in Nat /\ sent \in Nat /\ last <= sent
    BY <2>1
  <2> QED BY <2>1, <2>3, <2>4, Zenon DEF PrinterInv, PrinterTypeOK
<1> QED BY <1>1, <1>2, <1>3, <1>4, <1>5 DEF SendPathInv

\* ... and every step keeps it.
LEMMA SendPathStep ==
    ASSUME SendPathInv, [Next]_vars
    PROVE  SendPathInv'
<1>1. CASE MainStep
  BY <1>1, MainKeeps
<1>2. CASE PrinterStep
  BY <1>2, PrinterKeeps
<1>3. ASSUME NEW p \in Paths, WriterStep(p) PROVE SendPathInv'
  BY <1>3, WriterKeeps
<1>4. ASSUME NEW p \in Paths, PacketStep(p) PROVE SendPathInv'
  BY <1>4, PacketKeeps
<1>5. CASE UNCHANGED vars
  <2>1. ControlTypes /\ StartInv /\ WriterInv /\ PacketInv /\ WindowInv /\ PrinterInv
    BY DEF SendPathInv
  <2>2. UNCHANGED <<mvars, wvars, nvars, ccvars, pvars>>
    BY <1>5 DEF vars
  <2>3. ControlTypes' /\ StartInv' /\ WriterInv'
    BY <2>1, <2>2 DEF mvars, wvars, nvars, ccvars, ControlTypes, CCTypeOK, StartInv, WriterInv
  <2>4. PacketInv' /\ WindowInv'
    BY <2>1, <2>2, QuietNet DEF nvars, ccvars
  <2>5. PrinterInv'
    BY <2>1, <2>2 DEF wvars, pvars, PrinterInv, PrinterTypeOK
  <2> QED BY <2>3, <2>4, <2>5 DEF SendPathInv
<1> QED BY <1>1, <1>2, <1>3, <1>4, <1>5 DEF Next

-----------------------------------------------------------------------------
\* Writers, packets, windows and the printer keep their invariant whatever
\* the network loses, delays or reorders.
THEOREM SendPathInvariant == Spec => []SendPathInv
<1>1. Init => SendPathInv
  BY SendPathInitially
<1>2. SendPathInv /\ [Next]_vars => SendPathInv'
  BY SendPathStep
<1> QED BY <1>1, <1>2, PTL DEF Spec

\* The variables of writers, controllers, packet layer and printer keep their
\* types.
THEOREM SendPathTypes == Spec => []SendPathTypeOK
<1>1. SendPathInv => SendPathTypeOK
  <2> SUFFICES ASSUME SendPathInv PROVE SendPathTypeOK
    OBVIOUS
  <2>1. ControlTypes /\ WriterInv /\ PacketInv /\ PrinterInv
    BY DEF SendPathInv
  <2>2. ASSUME NEW p \in Paths
        PROVE  /\ frames[p] \in 0..share[p] /\ chunksSent[p] \in 0..frames[p]
               /\ sendOff[p] \in 0..(frames[p] * FrameLen)
               /\ got[p] \subseteq 0..(sendOff[p] - 1)
    <3>1. /\ frames[p] \in Nat /\ chunksSent[p] \in Nat /\ sendOff[p] \in Nat
          /\ frames[p] <= share[p] /\ share[p] \in Nat
          /\ frames[p] = chunksSent[p] + (IF wpc[p] = "write" THEN 1 ELSE 0)
          /\ sendOff[p] <= frames[p] * FrameLen
      BY <2>1 DEF WriterInv, ControlTypes
    <3>2. frames[p] * FrameLen \in Nat
      BY <3>1, SendPathAssumption, SMT
    <3>3. chunksSent[p] <= frames[p]
      BY <3>1, SMT
    <3>4. got[p] \subseteq 0..(sendOff[p] - 1)
      BY <2>1 DEF PacketInv, Account
    <3> QED BY <3>1, <3>2, <3>3, <3>4, SMT
  <2> QED BY <2>1, <2>2 DEF SendPathTypeOK, ControlTypes, WriterInv, PrinterInv
<1> QED BY <1>1, SendPathInvariant, PTL

\* A path with the fixed window never has more in flight than the window and
\* less than a datagram.
THEOREM FlightStaysBounded == Spec => []InFlightBounded
<1>1. SendPathInv => InFlightBounded
  <2> SUFFICES ASSUME SendPathInv, NEW p \in Paths, cc[p] = "fixed"
               PROVE  BytesInFlight(p) < GetCongestionWindow(p) + MaxDatagram
    BY DEF InFlightBounded
  <2>1. PathState(p)
    BY PathFacts
  <2>2. BytesInFlight(p) = Weight(flight[p])
    BY DEF BytesInFlight, Weight
  <2>3. /\ GetCongestionWindow(p) = MaxDatagram * WindowFactor
        /\ MaxDatagram * WindowFactor \in Nat /\ MaxDatagram \in Nat
    BY FixedWindow, CCAssumption
  <2> QED BY <2>1, <2>2, <2>3, SMT DEF PathState
<1> QED BY <1>1, SendPathInvariant, PTL

\* The byte counts of a path with the fixed window are ahead of what arrived
\* by less than the window and two datagrams.
THEOREM CountsStayClose == Spec => []CountsAheadByAWindow
<1>1. SendPathInv => CountsAheadByAWindow
  <2> SUFFICES ASSUME SendPathInv, NEW p \in Paths, cc[p] = "fixed"
               PROVE  chunksSent[p] * FrameLen - Cardinality(got[p])
                        < GetCongestionWindow(p) + 2 * MaxDatagram
    BY DEF CountsAheadByAWindow
  <2>1. PathState(p)
    BY PathFacts
  <2>2. /\ chunksSent[p] * FrameLen < sendOff[p] + MaxDatagram
        /\ chunksSent[p] \in Nat /\ sendOff[p] \in Nat
    BY DEF SendPathInv, WriterInv
  <2>3. chunksSent[p] * FrameLen \in Nat
    BY <2>2, SendPathAssumption, SMT
  <2>4. /\ Cardinality(got[p]) \in Nat
        /\ sendOff[p] <= Cardinality(got[p]) + Weight(flight[p]) + Weight(lost[p])
    <3>1. /\ sendOff[p] \in Nat /\ flight[p] \in SUBSET Packet /\ lost[p] \in SUBSET Packet
          /\ got[p] \in SUBSET Nat /\ Account(sendOff[p], flight[p], lost[p], got[p])
      BY <2>1 DEF PathState
    <3> QED BY <3>1, MissingBytes
  <2>5. /\ Weight(flight[p]) \in Nat /\ Weight(lost[p]) \in Nat
        /\ Weight(flight[p]) + Weight(lost[p]) < MaxDatagram * WindowFactor + MaxDatagram
    BY <2>1 DEF PathState
  <2>6. /\ GetCongestionWindow(p) = MaxDatagram * WindowFactor
        /\ MaxDatagram * WindowFactor \in Nat /\ MaxDatagram \in Nat
    BY FixedWindow, CCAssumption
  <2> QED BY <2>2, <2>3, <2>4, <2>5, <2>6, SMT
<1> QED BY <1>1, SendPathInvariant, PTL

\* The progress line never steps back: each count the printer takes is larger
\* than the last and is one that was sent, however writers and printer meet.
THEOREM ProgressNeverFalls == Spec => ProgressGrows
<1>1. SendPathInv /\ [Next]_vars => [TakeCount => last < last' /\ last' <= sent]_vars
  BY DEF SendPathInv, PrinterInv, TakeCount
<1> QED BY <1>1, SendPathInvariant, PTL DEF Spec, ProgressGrows
=============================================================================
