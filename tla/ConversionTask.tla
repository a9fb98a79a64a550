--------------------------- MODULE ConversionTask ---------------------------
(***************************************************************************)
(* What the server relies on when it submits a task to the pool: the task  *)
(* converts, then fills its output directory, and only a directory that is *)
(* full makes it answer with a path; it may also give up before it has     *)
(* written anything, raise, or be lost with its process.  The steps are    *)
(* those of the Worker... actions of ConversionServer.                      *)
(***************************************************************************)
CONSTANT Tasks

VARIABLES step, out

tvars == <<step, out>>

Init ==
  /\ step = [t \in Tasks |-> "converting"]
  /\ out = [t \in Tasks |-> "empty"]

Becomes(t, s) == step' = [step EXCEPT ![t] = s]

Converts(t) ==
  /\ step[t] = "converting" /\ Becomes(t, "publishing")
  /\ out' = [out EXCEPT ![t] = "partial"]

Publishes(t) ==
  /\ step[t] = "publishing" /\ Becomes(t, "converted")
  /\ out' = [out EXCEPT ![t] = "full"]

GivesUp(t) ==
  /\ step[t] = "converting" /\ Becomes(t, "unconverted")
  /\ UNCHANGED out

Raises(t) ==
  /\ step[t] \in {"converting", "publishing"} /\ Becomes(t, "raised")
  /\ UNCHANGED out

Dies(lost) ==
  /\ \A t \in lost : step[t] \in {"converting", "publishing"}
  /\ step' = [t \in Tasks |-> IF t \in lost THEN "raised" ELSE step[t]]
  /\ UNCHANGED out

Next ==
  \/ \E t \in Tasks : Converts(t) \/ Publishes(t) \/ GivesUp(t) \/ Raises(t)
  \/ \E lost \in SUBSET Tasks : Dies(lost)

Spec == Init /\ [][Next]_tvars
=============================================================================
