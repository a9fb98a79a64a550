------------------------ MODULE MCConversionServer ------------------------
(* Values and symmetry for the runs of ConversionServer. *)
EXTENDS ConversionServerRefinement, TLC

CONSTANTS r1, r2, r3, r4

ThreeRequests == {r1, r2, r3}
FourRequests == {r1, r2, r3, r4}
Interchangeable == Permutations(Requests)
============================================================================
