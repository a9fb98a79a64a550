--------------------------- MODULE MCVlmCaptions ---------------------------
(* Values for the runs of VlmCaptions. *)
EXTENDS VlmCaptions

CONSTANT w1

OneWorker == {w1}
SecondPicture == {2}
SomeMayBeBroken == {{}, {5}, {3, 4, 5}}
UpToTwo == {0, 1, 2}
=============================================================================
