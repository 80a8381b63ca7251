----------------------------- MODULE Scheduler ------------------------------
(***************************************************************************)
(* internal/scheduler: which path(s) a chunk is sent on.  A scheduler is a *)
(* pure decision plus one counter: Assign returns the path indexes in the  *)
(* order the dispatcher enqueues on them, Counter the counter afterwards.  *)
(* The counter is a uint64; its wrap-around after 2^64 chunks is out of    *)
(* any transfer's reach and is not modelled.                               *)
(***************************************************************************)
EXTENDS PathSet, Sequences

\* scheduler.Names(): what init() registers.
SchedulerNames == {"roundrobin", "redundant", "rtt-aware"}

\* roundRobin.Assign
RoundRobin(n) == << n % NumPaths >>

Redundant_SkipsLast == [i \in 1..(NumPaths - 1) |-> i - 1]   \* bug: off by one

\* redundant.Assign
Redundant == [i \in 1..NumPaths |-> i - 1]

\* rttAware.Assign: the paths with a measured RTT (0 means not measured yet),
\* and the first of them with the lowest one.
Measured(rtt) == {p \in Paths : rtt[p] > 0}

\* Bug: the comparison is the wrong way round.
Best_Slowest(rtt) ==
    CHOOSE p \in Measured(rtt) : \A q \in Measured(rtt) : rtt[p] >= rtt[q]

Best(rtt) ==
    CHOOSE p \in Measured(rtt) :
        \A q \in Measured(rtt) : rtt[p] < rtt[q] \/ (rtt[p] = rtt[q] /\ p <= q)

RTTAware(n, rtt) ==
    IF Measured(rtt) = {} THEN RoundRobin(n) ELSE << Best(rtt) >>

Assign(name, n, rtt) ==
    CASE name = "roundrobin" -> RoundRobin(n)
      [] name = "redundant"  -> Redundant
      [] name = "rtt-aware"  -> RTTAware(n, rtt)

Counter_Stuck(name, n, rtt) == n       \* bug: r.n++ is missing

\* Only roundRobin.Assign counts, also as rtt-aware's fallback.
Counter(name, n, rtt) ==
    IF name = "roundrobin" \/ (name = "rtt-aware" /\ Measured(rtt) = {})
    THEN n + 1 ELSE n
=============================================================================
