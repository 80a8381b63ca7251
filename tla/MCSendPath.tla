----------------------------- MODULE MCSendPath -----------------------------
EXTENDS SendPath

\* One name for all paths, one each, one too many, and an unknown one.
MCCCSpecs == {<< "fixed" >>, << "cubic", "fixed" >>,
              << "fixed", "fixed", "fixed" >>, << "fixed", "reno" >>}

\* Both paths busy, and one path with several windows to send.
MCShares == {[p \in Paths |-> 1], [p \in Paths |-> 3 * p]}
=============================================================================
