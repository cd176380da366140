--------------------------- MODULE MCPluginHost ---------------------------
(* Small instances of PluginHost for TLC.                                  *)
EXTENDS PluginHost

Plain(k) == [kind |-> k, n |-> 0, good |-> 0, bytes |-> 0]
Rec(n, good, size) == [kind |-> "record", n |-> n, good |-> good, bytes |-> size]
Done(n) == [kind |-> "discoverResult", n |-> n, good |-> 0, bytes |-> 0]
Log(size) == [kind |-> "log", n |-> 0, good |-> 0, bytes |-> size]

(* Batches that fit, that are invalid at the second record, that exceed the *)
(* batch bound; a result that counts the spool rightly or not; two log      *)
(* lines exceed their cap.                                                  *)
AllFrames ==
    {Plain("initResult"), Done(2), Done(0), Rec(2, 2, 1), Rec(2, 1, 1), Rec(3, 3, 1), Log(2),
     Plain("fetch"), Plain("badRequest"), Plain("garbled")}

(* The frames of a run in which no record is sent.                          *)
QuietFrames ==
    {Plain("initResult"), Done(0), Plain("fetch"), Plain("unknown"), Plain("stray")}
============================================================================
