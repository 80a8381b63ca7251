------------------------------ MODULE Counting ------------------------------
(***************************************************************************)
(* Facts about numbers, finite sums and sequences that the proofs of       *)
(* several components rest on.                                             *)
(***************************************************************************)
EXTENDS Sums, Sequences, FiniteSetsExt, FiniteSetTheorems, TLAPS

\* Integer division by a positive divisor, from below and from above.
LEMMA DivFacts ==
    ASSUME NEW a \in Nat, NEW b \in Nat \ {0}
    PROVE  /\ a \div b \in Nat
           /\ b * (a \div b) <= a
           /\ a < b * (a \div b) + b
    BY SMT

\* Multiples of the chunk size are ordered as their factors.
LEMMA ProductOrder ==
    ASSUME NEW i \in Nat, NEW j \in Nat, NEW c \in Nat \ {0}
    PROVE  /\ i * c \in Nat
           /\ i <= j => i * c <= j * c
           /\ i < j => i * c + c <= j * c
           /\ i <= i * c
    BY SMT

\* The quotient is the only factor whose multiple brackets the dividend.
LEMMA DivUnique ==
    ASSUME NEW a \in Nat, NEW b \in Nat \ {0}, NEW i \in Nat,
           i * b <= a, a < i * b + b
    PROVE  a \div b = i
    BY DivFacts, ProductOrder, SMT

\* A payload of t bytes is cut into t / c pieces, rounded up: those whose
\* first byte lies in the payload.
LEMMA PiecesOf ==
    ASSUME NEW t \in Nat \ {0}, NEW c \in Nat \ {0}
    PROVE  /\ (t + c - 1) \div c \in Nat \ {0}
           /\ {i \in 0..(t - 1) : i * c < t} = 0..((t + c - 1) \div c - 1)
<1> DEFINE a == t + c - 1
           k == a \div c
<1>1. a \in Nat
  BY SMT
<1>2. k \in Nat /\ k * c <= a /\ a < k * c + c
  BY <1>1, DivFacts, SMT
<1>3. k # 0
  BY <1>2, SMT
<1>4. ASSUME NEW i \in Nat
      PROVE  i * c < t <=> i < k
  <2>1. CASE i < k
    BY <1>2, <2>1, ProductOrder, SMT
  <2>2. CASE k <= i
    BY <1>2, <2>2, ProductOrder, SMT
  <2> QED BY <1>2, <2>1, <2>2, SMT
<1>5. ASSUME NEW i \in Nat, i * c < t
      PROVE  i \in 0..(t - 1)
  BY <1>5, ProductOrder, SMT
<1> HIDE DEF k
<1>6. {i \in 0..(t - 1) : i * c < t} = 0..(k - 1)
  BY <1>2, <1>3, <1>4, <1>5, SMT
<1> QED BY <1>2, <1>3, <1>6 DEF k

\* A run of k consecutive numbers is finite and has k elements.
LEMMA RunOfNumbers ==
    ASSUME NEW a \in Nat, NEW k \in Nat
    PROVE  IsFiniteSet(a..(a + k - 1)) /\ Cardinality(a..(a + k - 1)) = k
<1>1. a \in Int /\ a + k - 1 \in Int
  BY SMT
<1>2. /\ IsFiniteSet(a..(a + k - 1))
      /\ Cardinality(a..(a + k - 1))
            = IF a > a + k - 1 THEN 0 ELSE (a + k - 1) - a + 1
  BY <1>1, FS_Interval
<1> QED BY <1>2, SMT

\* Counting on by one: the remainder moves on, and the quotient when it wraps.
LEMMA NextRemainder ==
    ASSUME NEW a \in Nat, NEW b \in Nat \ {0}
    PROVE  /\ a % b \in 0..(b - 1)
           /\ a \div b \in Nat
           /\ (a % b) + 1 < b =>
                 (a + 1) % b = (a % b) + 1 /\ (a + 1) \div b = a \div b
           /\ (a % b) + 1 = b =>
                 (a + 1) % b = 0 /\ (a + 1) \div b = (a \div b) + 1
<1> DEFINE q == a \div b
           r == a % b
<1>1. q \in Nat /\ r \in 0..(b - 1) /\ a = b * q + r
  BY SMT
<1>2. (a + 1) % b = a + 1 - b * ((a + 1) \div b)
  BY SMT
<1>3. ASSUME r + 1 < b PROVE (a + 1) \div b = q
  <2>1. q * b <= a + 1 /\ a + 1 < q * b + b /\ a + 1 \in Nat
    BY <1>1, <1>3, SMT
  <2> HIDE DEF q
  <2> QED BY <1>1, <2>1, DivUnique
<1>4. ASSUME r + 1 = b PROVE (a + 1) \div b = q + 1
  <2>1. (q + 1) * b = a + 1 /\ q + 1 \in Nat /\ a + 1 \in Nat
    BY <1>1, <1>4, SMT
  <2>2. (q + 1) * b <= a + 1 /\ a + 1 < (q + 1) * b + b
    BY <2>1, SMT
  <2> HIDE DEF q
  <2> QED BY <2>1, <2>2, DivUnique
<1> QED BY <1>1, <1>2, <1>3, <1>4, SMT

\* A nonempty set of naturals has a least element.
LEMMA LeastNumber ==
    ASSUME NEW U, U \subseteq Nat, U # {}
    PROVE  \E u \in U : \A v \in U : u <= v
<1>1. PICK u \in U : \A v \in U : ~(<<v, u>> \in OpToRel(<, Nat))
  BY NatLessThanWellFounded, WFMin
<1>2. \A v \in U : ~(v < u)
  BY <1>1 DEF OpToRel
<1> QED BY <1>2, SMT

\* Among numbered things with a cost, the first of the cheapest.
LEMMA FirstLeast ==
    ASSUME NEW M, M \subseteq Nat, M # {}, NEW r, \A p \in M : r[p] \in Nat
    PROVE  \E p \in M : \A q \in M : r[p] < r[q] \/ (r[p] = r[q] /\ p <= q)
<1> DEFINE T == {r[p] : p \in M}
<1>1. T \subseteq Nat /\ T # {}
  OBVIOUS
<1>2. PICK t \in T : \A u \in T : t <= u
  BY <1>1, LeastNumber
<1> DEFINE F == {p \in M : r[p] = t}
<1>3. F \subseteq Nat /\ F # {}
  OBVIOUS
<1>4. PICK p \in F : \A q \in F : p <= q
  BY <1>3, LeastNumber
<1>5. ASSUME NEW q \in M PROVE r[p] < r[q] \/ (r[p] = r[q] /\ p <= q)
  <2>1. r[p] = t /\ t <= r[q] /\ t \in Nat /\ r[q] \in Nat
    BY <1>1, <1>2
  <2>2. r[q] = t => p <= q
    BY <1>4
  <2> QED BY <2>1, <2>2, SMT
<1> QED BY <1>5

-----------------------------------------------------------------------------
\* Sums.

\* A sum of naturals over a finite set is a natural.
LEMMA SumFinite ==
    ASSUME NEW S, IsFiniteSet(S), NEW f, \A x \in S : f[x] \in Nat
    PROVE  IsFiniteSet(Units(S, f)) /\ SumOver(S, f) \in Nat
<1> DEFINE R == {{x} \X (1..f[x]) : x \in S}
           g == [x \in S |-> {x} \X (1..f[x])]
<1>1. g \in Surjection(S, R)
  BY DEF Surjection
<1>2. IsFiniteSet(R)
  BY <1>1, FS_Surjection
<1>3. ASSUME NEW x \in S PROVE IsFiniteSet({x} \X (1..f[x]))
  <2>1. f[x] \in Int /\ 1 \in Int
    OBVIOUS
  <2>2. IsFiniteSet(1..f[x])
    BY <2>1, FS_Interval
  <2> QED BY <2>2, FS_Singleton, FS_Product
<1>4. IsFiniteSet(UNION R)
  BY <1>2, <1>3, FS_UNION
<1> QED BY <1>4, FS_CardinalityType DEF Units, SumOver

\* Nothing to sum.
LEMMA SumEmpty ==
    ASSUME NEW f
    PROVE  SumOver({}, f) = 0
<1>1. Units({}, f) = {}
  BY DEF Units
<1> QED BY <1>1, FS_EmptySet DEF SumOver

\* Only the values on the set matter.
LEMMA SumSame ==
    ASSUME NEW S, NEW f, NEW g, \A x \in S : f[x] = g[x]
    PROVE  SumOver(S, f) = SumOver(S, g)
<1>1. Units(S, f) = Units(S, g)
  BY DEF Units
<1> QED BY <1>1 DEF SumOver

\* One value alone.
LEMMA SumSingleton ==
    ASSUME NEW x, NEW f, f[x] \in Nat
    PROVE  SumOver({x}, f) = f[x]
<1>1. Units({x}, f) = {x} \X (1..f[x])
  BY DEF Units
<1>2. IsFiniteSet(1..f[x]) /\ Cardinality(1..f[x]) = f[x]
  <2>1. f[x] \in Int /\ 1 \in Int
    OBVIOUS
  <2>2. /\ IsFiniteSet(1..f[x])
        /\ Cardinality(1..f[x]) = IF 1 > f[x] THEN 0 ELSE f[x] - 1 + 1
    BY <2>1, FS_Interval
  <2> QED BY <2>2
<1>3. IsFiniteSet({x}) /\ Cardinality({x}) = 1
  BY FS_Singleton
<1>4. Cardinality({x} \X (1..f[x])) = Cardinality({x}) * Cardinality(1..f[x])
  BY <1>2, <1>3, FS_Product
<1>5. Cardinality({x} \X (1..f[x])) = f[x]
  BY <1>2, <1>3, <1>4
<1> QED BY <1>1, <1>5 DEF SumOver

\* Sums over disjoint sets add up.
LEMMA SumUnion ==
    ASSUME NEW S, NEW T, IsFiniteSet(S), IsFiniteSet(T), S \cap T = {},
           NEW f, \A x \in S \cup T : f[x] \in Nat
    PROVE  SumOver(S \cup T, f) = SumOver(S, f) + SumOver(T, f)
<1>1. Units(S \cup T, f) = Units(S, f) \cup Units(T, f)
  BY DEF Units
<1>2. Units(S, f) \cap Units(T, f) = {}
  BY DEF Units
<1>3. IsFiniteSet(Units(S, f)) /\ IsFiniteSet(Units(T, f))
      /\ SumOver(S, f) \in Nat /\ SumOver(T, f) \in Nat
  BY SumFinite
<1>4. SumOver(S \cup T, f) = SumOver(S, f) + SumOver(T, f) - Cardinality({})
  BY <1>1, <1>2, <1>3, FS_Union DEF SumOver
<1>5. Cardinality({}) = 0
  BY FS_EmptySet
<1> QED BY <1>3, <1>4, <1>5

\* One more element.
LEMMA SumAdd ==
    ASSUME NEW S, IsFiniteSet(S), NEW y, y \notin S,
           NEW f, \A x \in S : f[x] \in Nat, f[y] \in Nat
    PROVE  SumOver(S \cup {y}, f) = SumOver(S, f) + f[y]
<1>1. IsFiniteSet({y}) /\ S \cap {y} = {}
  BY FS_Singleton
<1> QED BY <1>1, SumUnion, SumSingleton

\* One element taken out.
LEMMA SumRemove ==
    ASSUME NEW S, IsFiniteSet(S), NEW y \in S,
           NEW f, \A x \in S : f[x] \in Nat
    PROVE  SumOver(S, f) = SumOver(S \ {y}, f) + f[y]
<1>1. IsFiniteSet(S \ {y}) /\ S = (S \ {y}) \cup {y}
  BY FS_RemoveElement
<1> QED BY <1>1, SumAdd

\* One value changed.
LEMMA SumUpdate ==
    ASSUME NEW S, IsFiniteSet(S), NEW y \in S,
           NEW f, \A x \in S : f[x] \in Nat,
           NEW g, g[y] \in Nat, \A x \in S \ {y} : g[x] = f[x]
    PROVE  SumOver(S, g) + f[y] = SumOver(S, f) + g[y]
<1>1. SumOver(S, f) = SumOver(S \ {y}, f) + f[y]
  BY SumRemove
<1>2. \A x \in S : g[x] \in Nat
  OBVIOUS
<1>3. SumOver(S, g) = SumOver(S \ {y}, g) + g[y]
  BY <1>2, SumRemove
<1>4. SumOver(S \ {y}, g) = SumOver(S \ {y}, f)
  BY SumSame
<1>5. SumOver(S \ {y}, f) \in Nat
  BY FS_RemoveElement, SumFinite
<1> QED BY <1>1, <1>3, <1>4, <1>5, SMT

\* One value changed or added.
LEMMA SumPut ==
    ASSUME NEW S, IsFiniteSet(S), NEW y, NEW old \in Nat,
           NEW f, \A x \in S : f[x] \in Nat,
           NEW g, g[y] \in Nat, \A x \in S \ {y} : g[x] = f[x],
           old = IF y \in S THEN f[y] ELSE 0
    PROVE  /\ SumOver(S, f) \in Nat /\ SumOver(S \cup {y}, g) \in Nat
           /\ SumOver(S \cup {y}, g) + old = SumOver(S, f) + g[y]
<1>1. SumOver(S, f) \in Nat
  BY SumFinite
<1>2. CASE y \in S
  <2>1. S \cup {y} = S /\ old = f[y]
    BY <1>2
  <2>2. SumOver(S, g) + f[y] = SumOver(S, f) + g[y]
    BY <1>2, SumUpdate
  <2>3. \A x \in S : g[x] \in Nat
    OBVIOUS
  <2>4. SumOver(S, g) \in Nat
    BY <2>3, SumFinite
  <2> QED BY <1>1, <2>1, <2>2, <2>4
<1>3. CASE y \notin S
  <2>1. \A x \in S : g[x] = f[x] /\ g[x] \in Nat
    BY <1>3
  <2>2. SumOver(S \cup {y}, g) = SumOver(S, g) + g[y]
    BY <1>3, <2>1, SumAdd
  <2>3. SumOver(S, g) = SumOver(S, f)
    BY <2>1, SumSame
  <2>4. old = 0
    BY <1>3
  <2> QED BY <1>1, <2>2, <2>3, <2>4, SMT
<1> QED BY <1>2, <1>3

\* Summing nothing but zeros.
LEMMA SumZero ==
    ASSUME NEW S, NEW f, \A x \in S : f[x] = 0
    PROVE  SumOver(S, f) = 0
<1>1. Units(S, f) = {}
  BY SMT DEF Units
<1> QED BY <1>1, FS_EmptySet DEF SumOver

\* Renaming the elements.
LEMMA SumRename ==
    ASSUME NEW S, IsFiniteSet(S), NEW T, NEW h \in Bijection(S, T),
           NEW f, \A x \in S : f[x] \in Nat,
           NEW g, \A x \in S : g[h[x]] = f[x]
    PROVE  SumOver(T, g) = SumOver(S, f)
<1> DEFINE k == [u \in Units(S, f) |-> <<h[u[1]], u[2]>>]
<1>1. h \in [S -> T] /\ (\A x, y \in S : h[x] = h[y] => x = y)
      /\ (\A z \in T : \E x \in S : h[x] = z)
  BY DEF Bijection, Injection, Surjection, IsInjective
<1>2. ASSUME NEW u \in Units(S, f)
      PROVE  /\ u = <<u[1], u[2]>> /\ u[1] \in S /\ u[2] \in 1..f[u[1]]
             /\ k[u] \in Units(T, g)
  BY <1>1 DEF Units
<1>3. ASSUME NEW u \in Units(S, f), NEW v \in Units(S, f), k[u] = k[v] PROVE u = v
  BY <1>1, <1>2, <1>3
<1>4. ASSUME NEW w \in Units(T, g) PROVE \E u \in Units(S, f) : k[u] = w
  <2>1. w = <<w[1], w[2]>> /\ w[1] \in T /\ w[2] \in 1..g[w[1]]
    BY DEF Units
  <2>2. PICK x \in S : h[x] = w[1]
    BY <1>1, <2>1
  <2>3. <<x, w[2]>> \in Units(S, f)
    BY <2>1, <2>2 DEF Units
  <2> QED BY <2>1, <2>2, <2>3
<1>5. k \in Bijection(Units(S, f), Units(T, g))
  BY <1>2, <1>3, <1>4 DEF Bijection, Injection, Surjection, IsInjective
<1>6. IsFiniteSet(Units(S, f))
  BY SumFinite
<1> QED BY <1>5, <1>6, FS_Bijection DEF SumOver, ExistsBijection

\* The least and the greatest of two numbers.
LEMMA MinOfTwo ==
    ASSUME NEW x \in Int, NEW y \in Int
    PROVE  Min({x, y}) \in {x, y} /\ Min({x, y}) <= x /\ Min({x, y}) <= y
<1>1. \E u \in {x, y} : \A v \in {x, y} : u =< v
  <2>1. CASE x <= y
    BY <2>1
  <2>2. CASE y <= x
    BY <2>2
  <2> QED BY <2>1, <2>2
<1> QED BY <1>1 DEF Min

LEMMA MaxOfTwo ==
    ASSUME NEW x \in Int, NEW y \in Int
    PROVE  Max({x, y}) \in {x, y}
<1>1. \E u \in {x, y} : \A v \in {x, y} : u >= v
  <2>1. CASE x >= y
    BY <2>1
  <2>2. CASE y >= x
    BY <2>2
  <2> QED BY <2>1, <2>2
<1> QED BY <1>1 DEF Max

-----------------------------------------------------------------------------
\* Sequences, as queues and streams use them.

Elems(s) == {s[i] : i \in 1..Len(s)}

\* A chunk is put at the end of a queue or a stream ...
LEMMA AppendFacts ==
    ASSUME NEW T, NEW s \in Seq(T), NEW e \in T
    PROVE  /\ Append(s, e) \in Seq(T)
           /\ Len(Append(s, e)) = Len(s) + 1
           /\ Elems(Append(s, e)) = Elems(s) \cup {e}
<1>1. /\ Append(s, e) \in Seq(T) /\ Len(Append(s, e)) = Len(s) + 1 /\ Len(s) \in Nat
      /\ \A i \in 1..Len(s) : Append(s, e)[i] = s[i]
      /\ Append(s, e)[Len(s) + 1] = e
  OBVIOUS
<1>2. 1..(Len(s) + 1) = (1..Len(s)) \cup {Len(s) + 1}
  BY <1>1, SMT
<1>3. Elems(Append(s, e)) = {Append(s, e)[i] : i \in 1..Len(s)} \cup {e}
  BY <1>1, <1>2 DEF Elems
<1> QED BY <1>1, <1>3 DEF Elems

\* ... and taken from its front.
LEMMA TailFacts ==
    ASSUME NEW T, NEW s \in Seq(T), s # << >>
    PROVE  /\ Head(s) \in T /\ Tail(s) \in Seq(T)
           /\ Len(s) \in Nat \ {0} /\ Len(Tail(s)) = Len(s) - 1
           /\ Head(s) = s[1] /\ \A i \in 1..Len(Tail(s)) : Tail(s)[i] = s[i + 1]
           /\ Elems(s) = {Head(s)} \cup Elems(Tail(s))
<1>1. /\ Head(s) \in T /\ Tail(s) \in Seq(T)
      /\ Len(s) \in Nat \ {0} /\ Len(Tail(s)) = Len(s) - 1
      /\ Head(s) = s[1] /\ \A i \in 1..Len(Tail(s)) : Tail(s)[i] = s[i + 1]
  BY SMT
<1>2. ASSUME NEW i \in 1..Len(s) PROVE s[i] \in {Head(s)} \cup Elems(Tail(s))
  <2>1. CASE i = 1
    BY <1>1, <2>1
  <2>2. CASE i # 1
    <3>1. i - 1 \in 1..Len(Tail(s)) /\ (i - 1) + 1 = i
      BY <1>1, <2>2, SMT
    <3>2. Tail(s)[i - 1] = s[i]
      BY <1>1, <3>1
    <3> QED BY <3>1, <3>2 DEF Elems
  <2> QED BY <2>1, <2>2
<1>3. ASSUME NEW i \in 1..Len(Tail(s)) PROVE Tail(s)[i] \in Elems(s)
  <2>1. i + 1 \in 1..Len(s)
    BY <1>1, SMT
  <2> QED BY <1>1, <2>1 DEF Elems
<1>4. s[1] \in Elems(s)
  BY <1>1, SMT DEF Elems
<1>5. Elems(s) \subseteq {Head(s)} \cup Elems(Tail(s))
  BY <1>2 DEF Elems
<1>6. Elems(Tail(s)) \subseteq Elems(s)
  BY <1>3 DEF Elems
<1> QED BY <1>1, <1>4, <1>5, <1>6

\* An empty queue holds nothing.
LEMMA NoElems == Elems(<< >>) = {}
BY DEF Elems
=============================================================================
