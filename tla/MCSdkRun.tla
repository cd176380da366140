------------------------------ MODULE MCSdkRun ------------------------------
(* A small instance of SdkRun for TLC.                                     *)
EXTENDS SdkRun

(* Batches of one or two records, at most three records in a run.           *)
MCFrames ==
    {Plain("initResult"), Plain("log"), Plain("fetch"), Plain("stray")}
    \cup {Records(k) : k \in 1..2} \cup {Result(k) : k \in 0..3}
=============================================================================
