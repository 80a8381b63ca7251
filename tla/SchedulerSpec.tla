--------------------------- MODULE SchedulerSpec ----------------------------
(***************************************************************************)
(* A scheduler instance over its life: sendChunks asks it for every chunk  *)
(* of a transfer (in continuous mode, of every burst), each time with the  *)
(* RTTs the connections report at that moment.                             *)
(***************************************************************************)
EXTENDS Scheduler

CONSTANTS Schedulers,   \* the values of -scheduler
          RTTs,         \* the RTTs a path may report; 0 is "not measured yet"
          MaxChunks     \* bound on the chunks scheduled on one path

ASSUME SchedulerAssumption ==
    /\ Schedulers \subseteq SchedulerNames
    /\ 0 \in RTTs /\ RTTs \subseteq Nat /\ MaxChunks \in Nat

VARIABLES sched,        \* the scheduler in use
          n,            \* the round-robin counter
          rtt,          \* per path: SmoothedRTT now
          placed,       \* per path: chunks assigned to it
          guessed       \* per path: those assigned while no RTT was known

scvars == <<sched, n, rtt, placed, guessed>>

Init ==
    /\ sched \in Schedulers
    /\ n = 0
    /\ rtt \in [Paths -> RTTs]
    /\ placed = [p \in Paths |-> 0]
    /\ guessed = [p \in Paths |-> 0]

Targets(s) == {s[i] : i \in 1..Len(s)}

\* One round of the dispatcher's loop: read the RTTs, ask the scheduler.
Dispatch ==
    LET to == Targets(Assign(sched, n, rtt))
        plus(f) == [p \in Paths |-> IF p \in to THEN f[p] + 1 ELSE f[p]]
    IN  /\ \A p \in Paths : placed[p] < MaxChunks
        /\ placed' = plus(placed)
        /\ guessed' = IF Measured(rtt) = {} THEN plus(guessed) ELSE guessed
        /\ n' = Counter(sched, n, rtt)
        /\ UNCHANGED <<sched, rtt>>

\* A path gets its first RTT sample, or a new smoothed value (never unknown).
Measure(p) ==
    /\ \E v \in RTTs \ {0, rtt[p]} : rtt' = [rtt EXCEPT ![p] = v]
    /\ UNCHANGED <<sched, n, placed, guessed>>

Next == Dispatch \/ \E p \in Paths : Measure(p)

Spec == Init /\ [][Next]_scvars

-----------------------------------------------------------------------------
WithinOne(f) == \A p, q \in Paths : f[p] - f[q] \in {-1, 0, 1}

\* TestRoundRobinCycles at any point of any transfer: round-robin keeps the
\* paths level within one chunk, and redundant exactly level; rtt-aware's
\* fallback spreads the chunks sent while no RTT is known evenly, as the
\* counter it shares with round-robin moves once per such chunk.
Level ==
    /\ sched = "roundrobin" => WithinOne(placed)
    /\ sched = "redundant" => \A p, q \in Paths : placed[p] = placed[q]
    /\ sched = "rtt-aware" => WithinOne(guessed)

\* TestRTTAwarePicksLowestRTT: once a path has a measured RTT, no chunk is
\* ever placed on a path known to be slower than another.
NeverOnASlowerPath ==
    [][sched = "rtt-aware" =>
          \A p \in Paths : placed'[p] # placed[p] =>
              \A q \in Measured(rtt) : rtt[p] <= rtt[q]]_scvars
=============================================================================
