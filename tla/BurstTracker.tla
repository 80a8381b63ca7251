---------------------------- MODULE BurstTracker ----------------------------
(***************************************************************************)
(* transfer.BurstTracker (internal/transfer/burst.go): what the server     *)
(* keeps of a continuous session, one counter record per burst that has    *)
(* received something and has not been reported yet.  Every method holds   *)
(* the tracker's mutex for its whole body, so a call is one step.          *)
(*                                                                         *)
(* Every burst is TotalSize bytes long (each chunk carries its burst's     *)
(* size, so bursts of other sizes are tracked in the same way).  Time is   *)
(* one bit per burst: idle, lastActivity is at least ttl in the past.  The *)
(* perPath map is total here, a path without chunks having no entry.       *)
(***************************************************************************)
EXTENDS Chunk, PathSet, FiniteSets

VARIABLE bursts         \* burst id -> burstState, for the bursts tracked

NoStats == [bytesReceived |-> 0, chunks |-> 0, corrupted |-> 0]

NewBurst ==
    [bytesReceived |-> 0, seen |-> {}, chunks |-> 0, corrupted |-> 0,
     perPath |-> [p \in Paths |-> NoStats], idle |-> FALSE]

Tracked(id) == IF id \in DOMAIN bursts THEN bursts[id] ELSE NewBurst

\* The burst's record after one more chunk, credit of whose bytes are new.
Counted(b, seq, credit, bad, p) ==
    [bytesReceived |-> b.bytesReceived + credit,
     seen          |-> IF bad = 1 THEN b.seen ELSE b.seen \cup {seq},
     chunks        |-> b.chunks + 1,
     corrupted     |-> b.corrupted + bad,
     perPath       |-> [b.perPath EXCEPT ![p] =
                          [bytesReceived |-> @.bytesReceived + credit,
                           chunks        |-> @.chunks + 1,
                           corrupted     |-> @.corrupted + bad]],
     idle          |-> FALSE]

Put(id, b) == bursts' = [i \in DOMAIN bursts \cup {id} |-> IF i = id THEN b ELSE bursts[i]]

\* Bug: a duplicate's bytes are credited again.
Write_CreditsDuplicates(id, seq, corrupt, p) ==
    Put(id, Counted(Tracked(id), seq, IF corrupt THEN 0 ELSE ChunkLen(seq),
                    IF corrupt THEN 1 ELSE 0, p))

\* BurstTracker.Write
Write(id, seq, corrupt, p) ==
    LET b == Tracked(id) IN
    Put(id, Counted(b, seq, IF corrupt \/ seq \in b.seen THEN 0 ELSE ChunkLen(seq),
                    IF corrupt THEN 1 ELSE 0, p))

\* burstState.stats
Stats(id) ==
    [id |-> id, bytesReceived |-> bursts[id].bytesReceived,
     chunks |-> bursts[id].chunks, corrupted |-> bursts[id].corrupted,
     complete |-> bursts[id].bytesReceived >= TotalSize,
     perPath |-> bursts[id].perPath]

Expired_OnlyComplete ==           \* bug: an abandoned burst is kept for ever
    {id \in DOMAIN bursts : bursts[id].idle /\ bursts[id].bytesReceived >= TotalSize}

\* The bursts Expire returns; ExpireAll returns all of DOMAIN bursts.
Expired == {id \in DOMAIN bursts : bursts[id].idle}

Forget_Nothing(ids) == UNCHANGED bursts        \* bug: no delete(t.bursts, id)

Forget(ids) == bursts' = [i \in DOMAIN bursts \ ids |-> bursts[i]]

\* Not an operation: ttl has passed since the burst's last chunk.
GoIdle(id) ==
    /\ id \in DOMAIN bursts /\ ~bursts[id].idle
    /\ bursts' = [bursts EXCEPT ![id].idle = TRUE]
=============================================================================
