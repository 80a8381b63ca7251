-------------------------- MODULE ProgressPrinter ---------------------------
(***************************************************************************)
(* metrics.ProgressPrinter: a goroutine that prints the latest byte count  *)
(* it was given, at most once per interval.  Update puts a count in a      *)
(* channel of capacity one and drops it when the channel is full, so that  *)
(* the transfer never waits for the printer.                               *)
(***************************************************************************)
EXTENDS Naturals, Sequences

VARIABLES current,      \* the channel
          done,         \* the channel done is closed
          last,         \* the loop's last: what a tick of its timer prints
          ppc           \* "off" before NewProgressPrinter, "loop", "ended"

pvars == <<current, done, last, ppc>>

PrinterInit ==
    current = << >> /\ done = FALSE /\ last = 0 /\ ppc = "off"

NewProgressPrinter == ppc' = "loop" /\ UNCHANGED <<current, done, last>>

Update(v) ==
    /\ current' = IF current = << >> THEN << v >> ELSE current
    /\ UNCHANGED <<done, last, ppc>>

Close == done' = TRUE /\ UNCHANGED <<current, last, ppc>>

\* The loop's select.  Its third case, a tick, only prints last.
TakeCount ==
    /\ ppc = "loop" /\ current # << >>
    /\ last' = Head(current) /\ current' = << >>
    /\ UNCHANGED <<done, ppc>>

\* The last line says total of total (100%), whatever was reported.
SelectDone ==
    /\ ppc = "loop" /\ done
    /\ ppc' = "ended"
    /\ UNCHANGED <<current, done, last>>

PrinterTypeOK ==
    /\ current \in Seq(Nat) /\ Len(current) <= 1
    /\ done \in BOOLEAN /\ last \in Nat
    /\ ppc \in {"off", "loop", "ended"}
=============================================================================
