------------------------- MODULE ConversionService -------------------------
(***************************************************************************)
(* What POST /convert/ promises, without saying how: each request is       *)
(* refused, or taken and then answered once unless the process stops; a    *)
(* 200 needs a conversion that ran to its end; no more conversions are in  *)
(* progress than the slots fixed when the first one starts; and every      *)
(* request taken is counted once, when its outcome is known.               *)
(***************************************************************************)
EXTENDS Integers, FiniteSets

CONSTANTS Requests, MaxSlots

VARIABLES stage, reply, slots, counted

svars == <<stage, reply, slots, counted>>

Open == {"pending", "converting", "converted", "succeeded", "failed"}
In(s) == {r \in Requests : stage[r] = s}
Becomes(r, s) == stage' = [stage EXCEPT ![r] = s]
Nothing == [success |-> 0, error |-> 0]

Init ==
  /\ stage = [r \in Requests |-> "new"]
  /\ reply = [r \in Requests |-> 0]
  /\ slots = 0
  /\ counted = Nothing

Refuse(r) ==
  /\ stage[r] = "new" /\ Becomes(r, "refused")
  /\ \E c \in {400, 413} : reply' = [reply EXCEPT ![r] = c]
  /\ UNCHANGED <<slots, counted>>

Take(r) ==
  /\ stage[r] = "new" /\ Becomes(r, "pending")
  /\ UNCHANGED <<reply, slots, counted>>

Start(r) ==
  /\ stage[r] = "pending" /\ Becomes(r, "converting")
  /\ slots' \in IF slots = 0 THEN 1..MaxSlots ELSE {slots}
  /\ Cardinality(In("converting")) < slots'
  /\ UNCHANGED <<reply, counted>>

Finish(r) ==
  /\ stage[r] = "converting" /\ Becomes(r, "converted")
  /\ UNCHANGED <<reply, slots, counted>>

Succeed(r) ==
  /\ stage[r] = "converted" /\ Becomes(r, "succeeded")
  /\ counted' = [counted EXCEPT !.success = @ + 1]
  /\ UNCHANGED <<reply, slots>>

Fail(r) ==
  /\ stage[r] \in {"pending", "converting", "converted"}
  /\ counted' = [counted EXCEPT !.error = @ + 1]
  /\ \/ Becomes(r, "failed") /\ UNCHANGED reply
     \/ /\ stage[r] = "pending" /\ Becomes(r, "answered")
        /\ \E c \in {413, 500} : reply' = [reply EXCEPT ![r] = c]
  /\ UNCHANGED slots

Reply(r) ==
  /\ stage[r] \in {"succeeded", "failed"} /\ Becomes(r, "answered")
  /\ \E c \in {200, 500} : /\ c = 200 => stage[r] = "succeeded"
                           /\ reply' = [reply EXCEPT ![r] = c]
  /\ UNCHANGED <<slots, counted>>

Stop ==
  /\ stage' = [r \in Requests |-> IF stage[r] \in Open THEN "lost" ELSE stage[r]]
  /\ slots' = 0 /\ counted' = Nothing
  /\ UNCHANGED reply

Next ==
  \/ \E r \in Requests : \/ Refuse(r) \/ Take(r) \/ Start(r) \/ Finish(r)
                         \/ Succeed(r) \/ Fail(r) \/ Reply(r)
  \/ Stop

Spec == Init /\ [][Next]_svars
=============================================================================
