--------------------------- MODULE MCProcessPool ---------------------------
(* Values for the run of ProcessPool. *)
EXTENDS ProcessPool

CONSTANTS t1, t2, t3, none

ThreeThreads == {t1, t2, t3}
============================================================================
