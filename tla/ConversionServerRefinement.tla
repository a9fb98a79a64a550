--------------------- MODULE ConversionServerRefinement ---------------------
(* ConversionServer seen from its clients: the mapping under which it      *)
(* implements ConversionService.                                            *)
EXTENDS ConversionServer

StageOf(r) ==
  CASE pc[r] \in Settled -> pc[r]
    [] pc[r] \in {"creating", "writing", "discarding", "mkdir", "waiting", "granted"} -> "pending"
    [] pc[r] \in InPool \cup Resolved -> "converting"
    [] pc[r] = "checking" -> "converted"
    [] pc[r] = "unlinking" -> IF code[r] = 200 THEN "succeeded" ELSE "failed"

StageSeen == [r \in Requests |-> StageOf(r)]
ReplySeen == [r \in Requests |-> IF pc[r] \in {"refused", "answered"} THEN code[r] ELSE 0]

Service == INSTANCE ConversionService WITH
  MaxSlots <- Larger(2, MaxWorkers),
  stage    <- StageSeen,
  reply    <- ReplySeen,
  slots    <- limit,
  counted  <- totals

(* Whatever fails inside, clients see the service of ConversionService: one *)
(* answer each, a 200 only after a whole conversion, conversions within the *)
(* slots, each outcome counted once.                                        *)
ImplementsService == Service!Spec
=============================================================================
