--------------------------- MODULE MCManagedRun ---------------------------
(* A small instance of ManagedRun and the server around it for TLC.        *)
EXTENDS UiServer, TLC

CONSTANTS r1, r2, c1, c2, c3

TwoRuns == {r1, r2}
============================================================================
