---------------------------- MODULE MCModelPool ----------------------------
(* Values for the runs of ModelPool. *)
EXTENDS ModelPool, TLC

CONSTANTS t1, t2, t3, ocr, formula, code

TwoThreads == {t1, t2}
ThreeThreads == {t1, t2, t3}
TwoSettings == {ocr, formula}
ThreeSettings == {ocr, formula, code}
Interchangeable == Permutations(Threads) \cup Permutations(Settings)
=============================================================================
