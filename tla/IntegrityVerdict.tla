-------------------------- MODULE IntegrityVerdict --------------------------
(***************************************************************************)
(* What the server promises of a one-shot session, with no handlers, locks *)
(* or streams in sight: chunks arrive on paths, intact or damaged; a path  *)
(* is closed into the report once and nothing is counted on it afterwards; *)
(* when every path is in the report, and only then, the verdict is given.  *)
(* It is "ok" exactly when every chunk arrived intact at least once and no *)
(* damaged chunk was ever counted, and it never changes.                   *)
(* (README.md, "Flags": the meaning of integrity_ok.)                      *)
(***************************************************************************)
EXTENDS Integers

CONSTANTS PathIds, ChunkIds

VARIABLES delivered,    \* chunks that arrived intact
          tally,        \* per path: chunks counted and damaged chunks counted
          reported,     \* paths closed into the report
          verdict       \* "none", "ok" or "bad"

ivars == <<delivered, tally, reported, verdict>>

Init ==
    /\ delivered = {}
    /\ tally = [p \in PathIds |-> [chunks |-> 0, corrupted |-> 0]]
    /\ reported = {}
    /\ verdict = "none"

Arrive(p, c) ==
    /\ p \notin reported
    /\ delivered' = delivered \cup {c}
    /\ tally' = [tally EXCEPT ![p].chunks = @ + 1]
    /\ UNCHANGED <<reported, verdict>>

ArriveDamaged(p) ==
    /\ p \notin reported
    /\ tally' = [tally EXCEPT ![p].chunks = @ + 1, ![p].corrupted = @ + 1]
    /\ UNCHANGED <<delivered, reported, verdict>>

Report(p) ==
    /\ p \notin reported
    /\ reported' = reported \cup {p}
    /\ UNCHANGED <<delivered, tally, verdict>>

Decide ==
    /\ verdict = "none" /\ reported = PathIds
    /\ verdict' = IF /\ delivered = ChunkIds
                     /\ \A p \in PathIds : tally[p].corrupted = 0
                  THEN "ok" ELSE "bad"
    /\ UNCHANGED <<delivered, tally, reported>>

Next ==
    \/ Decide
    \/ \E p \in PathIds :
          Report(p) \/ ArriveDamaged(p) \/ \E c \in ChunkIds : Arrive(p, c)

Spec == Init /\ [][Next]_ivars
=============================================================================
