-------------------------- MODULE SchedulerProofs ---------------------------
(***************************************************************************)
(* Proofs about the schedulers, for any number of paths, any RTTs and any  *)
(* length of transfer.                                                     *)
(*                                                                         *)
(* That round-robin keeps the paths level is not inductive: level counts   *)
(* say nothing about the counter.  What is: after n chunks path p has been *)
(* given n / NumPaths of them, and one more if it comes before n % NumPaths *)
(* (Dealt).  With rtt-aware the same holds of the chunks placed while no   *)
(* RTT was known, as the counter moves with those and with no other.       *)
(***************************************************************************)
EXTENDS SchedulerSpec, Counting

\* The chunks of f were dealt out in turn, k of them altogether.
Dealt(f, k) ==
    \A p \in Paths : f[p] = (k \div NumPaths) + (IF p < k % NumPaths THEN 1 ELSE 0)

Types ==
    /\ sched \in SchedulerNames
    /\ n \in Nat
    /\ rtt \in [Paths -> Nat]
    /\ placed \in [Paths -> Nat]
    /\ guessed \in [Paths -> Nat]

SchedulerInv ==
    /\ Types
    /\ sched = "roundrobin" => Dealt(placed, n)
    /\ sched = "redundant" => \A p, q \in Paths : placed[p] = placed[q]
    /\ sched = "rtt-aware" => Dealt(guessed, n)

\* f with one more chunk on each path of the set to.
Plus(f, to) == [p \in Paths |-> IF p \in to THEN f[p] + 1 ELSE f[p]]

-----------------------------------------------------------------------------
\* What roundRobin.Assign names is a path, the one whose turn it is.
LEMMA RoundRobinTarget ==
    ASSUME NEW k \in Nat
    PROVE  /\ k % NumPaths \in Paths
           /\ Targets(RoundRobin(k)) = {k % NumPaths}
<1>1. k % NumPaths \in Paths
  BY PathAssumption, NextRemainder DEF Paths
<1>2. Targets(RoundRobin(k)) = {k % NumPaths}
  BY DEF Targets, RoundRobin
<1> QED BY <1>1, <1>2

\* redundant.Assign names every path.
LEMMA RedundantTargets == Targets(Redundant) = Paths
<1>1. Len(Redundant) = NumPaths
  BY PathAssumption DEF Redundant
<1>2. \A i \in 1..NumPaths : Redundant[i] = i - 1
  BY DEF Redundant
<1>3. Targets(Redundant) = {i - 1 : i \in 1..NumPaths}
  BY <1>1, <1>2 DEF Targets
<1>4. ASSUME NEW p \in Paths PROVE \E i \in 1..NumPaths : p = i - 1
  <2>1. p + 1 \in 1..NumPaths /\ p = (p + 1) - 1
    BY PathAssumption DEF Paths
  <2> QED BY <2>1
<1>5. \A i \in 1..NumPaths : i - 1 \in Paths
  BY PathAssumption DEF Paths
<1> QED BY <1>3, <1>4, <1>5

\* Dealing one more chunk to the path whose turn it is.
LEMMA DealNext ==
    ASSUME NEW f \in [Paths -> Nat], NEW k \in Nat, Dealt(f, k)
    PROVE  Dealt(Plus(f, {k % NumPaths}), k + 1)
<1> DEFINE q == k \div NumPaths
           r == k % NumPaths
<1>1. /\ r \in 0..(NumPaths - 1) /\ q \in Nat
      /\ r + 1 < NumPaths =>
            (k + 1) % NumPaths = r + 1 /\ (k + 1) \div NumPaths = q
      /\ r + 1 = NumPaths =>
            (k + 1) % NumPaths = 0 /\ (k + 1) \div NumPaths = q + 1
  BY PathAssumption, NextRemainder
<1>2. \A p \in Paths : f[p] = q + (IF p < r THEN 1 ELSE 0)
  BY DEF Dealt
<1> HIDE DEF q, r
<1> SUFFICES ASSUME NEW p \in Paths
             PROVE  Plus(f, {r})[p] = ((k + 1) \div NumPaths)
                                        + (IF p < (k + 1) % NumPaths THEN 1 ELSE 0)
  BY DEF Dealt, r
<1>3. Plus(f, {r})[p] = IF p = r THEN f[p] + 1 ELSE f[p]
  BY DEF Plus
<1>4. p \in 0..(NumPaths - 1) /\ NumPaths \in Nat \ {0}
  BY PathAssumption DEF Paths
<1>5. f[p] = q + (IF p < r THEN 1 ELSE 0)
  BY <1>2
<1>6. CASE r + 1 < NumPaths
  BY <1>1, <1>3, <1>4, <1>5, <1>6, SMT
<1>7. CASE r + 1 = NumPaths
  BY <1>1, <1>3, <1>4, <1>5, <1>7, SMT
<1> QED BY <1>1, <1>4, <1>6, <1>7, SMT

\* Paths that were dealt to in turn are level within one chunk.
LEMMA DealtIsLevel ==
    ASSUME NEW f \in [Paths -> Nat], NEW k \in Nat, Dealt(f, k)
    PROVE  WithinOne(f)
<1>1. k \div NumPaths \in Nat
  BY PathAssumption, NextRemainder
<1> QED BY <1>1, SMT DEF Dealt, WithinOne

\* rttAware.Assign: the path chosen is measured and none measured is faster.
LEMMA BestIsFastest ==
    ASSUME rtt \in [Paths -> Nat], Measured(rtt) # {}
    PROVE  /\ Best(rtt) \in Measured(rtt)
           /\ \A q \in Measured(rtt) : rtt[Best(rtt)] <= rtt[q]
<1> DEFINE M == Measured(rtt)
<1>1. M \subseteq Nat /\ \A p \in M : rtt[p] \in Nat
  BY PathAssumption DEF Measured, Paths
<1>2. \E p \in M : \A q \in M : rtt[p] < rtt[q] \/ (rtt[p] = rtt[q] /\ p <= q)
  BY <1>1, FirstLeast
<1>3. /\ Best(rtt) \in M
      /\ \A q \in M : rtt[Best(rtt)] < rtt[q] \/ (rtt[Best(rtt)] = rtt[q] /\ Best(rtt) <= q)
  BY <1>2 DEF Best
<1> QED BY <1>1, <1>3, SMT

-----------------------------------------------------------------------------
\* Before the first chunk.
LEMMA SchedulerInitially == Init => SchedulerInv
<1> SUFFICES ASSUME Init PROVE SchedulerInv
  OBVIOUS
<1>1. Types
  BY SchedulerAssumption DEF Init, Types
<1>2. 0 \div NumPaths = 0 /\ 0 % NumPaths = 0
  BY PathAssumption, SMT
<1>3. \A p \in Paths : p \in Nat
  BY DEF Paths
<1> QED BY <1>1, <1>2, <1>3, SMT DEF Init, SchedulerInv, Dealt

\* One chunk: where it goes, and what that does to the counts.
LEMMA DispatchStep ==
    ASSUME Types, Dispatch
    PROVE  LET to == Targets(Assign(sched, n, rtt)) IN
           /\ placed' = Plus(placed, to)
           /\ guessed' = IF Measured(rtt) = {} THEN Plus(guessed, to) ELSE guessed
           /\ sched = "roundrobin" => to = {n % NumPaths} /\ n' = n + 1
           /\ sched = "redundant" => to = Paths /\ n' = n
           /\ sched = "rtt-aware" /\ Measured(rtt) = {} =>
                 to = {n % NumPaths} /\ n' = n + 1
           /\ sched = "rtt-aware" /\ Measured(rtt) # {} =>
                 to = {Best(rtt)} /\ n' = n
           /\ sched' = sched /\ rtt' = rtt
<1> DEFINE to == Targets(Assign(sched, n, rtt))
<1>1. n \in Nat
  BY DEF Types
<1>2. /\ placed' = Plus(placed, to)
      /\ guessed' = IF Measured(rtt) = {} THEN Plus(guessed, to) ELSE guessed
      /\ sched' = sched /\ rtt' = rtt /\ n' = Counter(sched, n, rtt)
  BY DEF Dispatch, Plus
<1>3. ASSUME sched = "roundrobin" PROVE to = {n % NumPaths} /\ n' = n + 1
  BY <1>1, <1>2, <1>3, RoundRobinTarget DEF Assign, Counter
<1>4. ASSUME sched = "redundant" PROVE to = Paths /\ n' = n
  BY <1>2, <1>4, RedundantTargets DEF Assign, Counter
<1>5. ASSUME sched = "rtt-aware", Measured(rtt) = {}
      PROVE  to = {n % NumPaths} /\ n' = n + 1
  BY <1>1, <1>2, <1>5, RoundRobinTarget DEF Assign, Counter, RTTAware
<1>6. ASSUME sched = "rtt-aware", Measured(rtt) # {}
      PROVE  to = {Best(rtt)} /\ n' = n
  <2>1. Assign(sched, n, rtt) = << Best(rtt) >>
    BY <1>6 DEF Assign, RTTAware
  <2>2. Targets(<< Best(rtt) >>) = {Best(rtt)}
    BY DEF Targets
  <2> QED BY <1>2, <1>6, <2>1, <2>2 DEF Counter
<1> QED BY <1>2, <1>3, <1>4, <1>5, <1>6

\* Every step of the dispatcher and of the connections keeps the invariant.
LEMMA SchedulerStep ==
    ASSUME SchedulerInv, [Next]_scvars
    PROVE  SchedulerInv'
<1>0. Types /\ sched \in SchedulerNames /\ n \in Nat
      /\ placed \in [Paths -> Nat] /\ guessed \in [Paths -> Nat]
  BY DEF SchedulerInv, Types
<1>1. CASE Dispatch
  <2> DEFINE to == Targets(Assign(sched, n, rtt))
  <2>1. /\ placed' = Plus(placed, to)
        /\ guessed' = IF Measured(rtt) = {} THEN Plus(guessed, to) ELSE guessed
        /\ sched = "roundrobin" => to = {n % NumPaths} /\ n' = n + 1
        /\ sched = "redundant" => to = Paths /\ n' = n
        /\ sched = "rtt-aware" /\ Measured(rtt) = {} =>
              to = {n % NumPaths} /\ n' = n + 1
        /\ sched = "rtt-aware" /\ Measured(rtt) # {} =>
              to = {Best(rtt)} /\ n' = n
        /\ sched' = sched /\ rtt' = rtt
    BY <1>0, <1>1, DispatchStep
  <2> HIDE DEF to
  <2>2. Types'
    <3>1. placed' \in [Paths -> Nat] /\ guessed' \in [Paths -> Nat]
      BY <1>0, <2>1 DEF Plus
    <3>2. n' \in Nat
      BY <1>0, <2>1 DEF SchedulerNames
    <3> QED BY <1>0, <2>1, <3>1, <3>2 DEF Types
  <2>3. ASSUME sched = "roundrobin" PROVE Dealt(placed', n')
    BY <1>0, <2>1, <2>3, DealNext DEF SchedulerInv
  <2>4. ASSUME sched = "redundant", NEW p \in Paths, NEW q \in Paths
        PROVE  placed'[p] = placed'[q]
    <3>1. placed[p] = placed[q]
      BY <2>4 DEF SchedulerInv
    <3>2. placed'[p] = placed[p] + 1 /\ placed'[q] = placed[q] + 1
      BY <2>1, <2>4 DEF Plus
    <3> QED BY <3>1, <3>2
  <2>5. ASSUME sched = "rtt-aware" PROVE Dealt(guessed', n')
    <3>1. CASE Measured(rtt) = {}
      BY <1>0, <2>1, <2>5, <3>1, DealNext DEF SchedulerInv
    <3>2. CASE Measured(rtt) # {}
      BY <2>1, <2>5, <3>2 DEF SchedulerInv
    <3> QED BY <3>1, <3>2
  <2> QED BY <2>1, <2>2, <2>3, <2>4, <2>5 DEF SchedulerInv, Dealt
<1>2. ASSUME NEW p \in Paths, Measure(p) PROVE SchedulerInv'
  <2>1. rtt' \in [Paths -> Nat]
    BY <1>0, <1>2, SchedulerAssumption DEF Measure, Types
  <2>2. sched' = sched /\ n' = n /\ placed' = placed /\ guessed' = guessed
    BY <1>2 DEF Measure
  <2> QED BY <2>1, <2>2 DEF SchedulerInv, Types, Dealt
<1>3. CASE UNCHANGED scvars
  BY <1>3 DEF SchedulerInv, Types, Dealt, scvars
<1> QED BY <1>1, <1>2, <1>3 DEF Next

\* The invariant holds of every scheduler instance at every moment.
LEMMA SchedulerInvariant == Spec => []SchedulerInv
<1>1. SchedulerInv /\ [Next]_scvars => SchedulerInv'
  BY SchedulerStep
<1> QED BY <1>1, SchedulerInitially, PTL DEF Spec

\* roundRobin.Assign, redundant.Assign and rttAware's fallback: at any point
\* of any transfer round-robin has given no path more than one chunk more
\* than another, redundant exactly as many, and the chunks rtt-aware placed
\* without an RTT are spread as evenly as round-robin's.
THEOREM SchedulersLevel == Spec => []Level
<1>1. SchedulerInv => Level
  <2> SUFFICES ASSUME SchedulerInv PROVE Level
    OBVIOUS
  <2>1. n \in Nat /\ placed \in [Paths -> Nat] /\ guessed \in [Paths -> Nat]
    BY DEF SchedulerInv, Types
  <2>2. sched = "roundrobin" => WithinOne(placed)
    BY <2>1, DealtIsLevel DEF SchedulerInv
  <2>3. sched = "rtt-aware" => WithinOne(guessed)
    BY <2>1, DealtIsLevel DEF SchedulerInv
  <2> QED BY <2>2, <2>3 DEF SchedulerInv, Level
<1> QED BY <1>1, SchedulerInvariant, PTL

\* rttAware.Assign: as long as some path has a measured RTT, a chunk goes to
\* a path than which no measured one is faster.
THEOREM NoSlowerPath == Spec => NeverOnASlowerPath
<1>1. SchedulerInv /\ [Next]_scvars =>
        [sched = "rtt-aware" =>
           \A p \in Paths : placed'[p] # placed[p] =>
               \A q \in Measured(rtt) : rtt[p] <= rtt[q]]_scvars
  <2> SUFFICES ASSUME SchedulerInv, [Next]_scvars, sched = "rtt-aware",
                      NEW p \in Paths, placed'[p] # placed[p],
                      NEW q \in Measured(rtt)
               PROVE  rtt[p] <= rtt[q]
    OBVIOUS
  <2>1. Types /\ rtt \in [Paths -> Nat]
    BY DEF SchedulerInv, Types
  <2>2. Dispatch
    BY DEF Next, Measure, scvars
  <2> DEFINE to == Targets(Assign(sched, n, rtt))
  <2>3. placed' = Plus(placed, to) /\ to = {Best(rtt)}
    BY <2>1, <2>2, DispatchStep
  <2>4. p = Best(rtt)
    BY <2>3 DEF Plus
  <2> QED BY <2>1, <2>4, BestIsFastest
<1> QED BY <1>1, SchedulerInvariant, PTL DEF Spec, NeverOnASlowerPath
=============================================================================
