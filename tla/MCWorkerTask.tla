--------------------------- MODULE MCWorkerTask ---------------------------
(* Values for the run of WorkerTask. *)
EXTENDS WorkerTask

CONSTANTS t1, t2

TwoTasks == {t1, t2}
SameProcess == [t \in TwoTasks |-> 1]
SecondPicture == {2}
AllFaults == {"disk", "conversion", "refusal", "kill"}
=============================================================================
