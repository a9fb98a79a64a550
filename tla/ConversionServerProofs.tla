----------------------- MODULE ConversionServerProofs -----------------------
(***************************************************************************)
(* Proofs about ConversionServer: typing, the semaphore's accounting, its  *)
(* queue and its wake-ups, the life of the temporary uploads, that it       *)
(* implements ConversionService, and that the metrics agree with it.        *)
(***************************************************************************)
EXTENDS ConversionServerRefinement, SequenceTheorems, FiniteSetTheorems, TLAPS

-----------------------------------------------------------------------------
(* Typing. *)

LEMMA LimitBounds ==
  ASSUME TypeOK
  PROVE  /\ Larger(2, MaxWorkers) \in Nat
         /\ DynamicLimit(mem) \in 1..Larger(2, MaxWorkers)
         /\ FallbackLimit \in 1..Larger(2, MaxWorkers)
BY BoundsArePositive, MemLevelsAreNatural
   DEF TypeOK, DynamicLimit, FallbackLimit, Smaller, Larger

LEMMA ConcludeType ==
  ASSUME TypeOK, NEW status \in {"success", "error"}, Conclude(status)
  PROVE  active' \in Nat /\ totals' \in [{"success", "error"} -> Nat] /\ samples' \in Nat
BY BoundsArePositive DEF TypeOK, Conclude, Record, Smaller, Larger

LEMMA WakeType ==
  ASSUME TypeOK, NEW n \in 0..Len(waiters),
         NEW progress \in [Requests -> Stages], Wake(n, progress)
  PROVE  /\ waiters' \in Seq(Requests)
         /\ pc' \in [Requests -> Stages]
         /\ Len(waiters') = Len(waiters) - n
         /\ \A i \in 1..Len(waiters') : waiters'[i] = waiters[n + i]
<1>1. waiters \in Seq(Requests) /\ Len(waiters) \in Nat
  BY LenProperties DEF TypeOK
<1>2. \A i \in n+1..Len(waiters) : waiters[i] \in Requests
  BY <1>1, ElementOfSeq
<1>3. waiters' = SubSeq(waiters, n+1, Len(waiters))
  BY DEF Wake
<1>4. /\ waiters' \in Seq(Requests)
      /\ Len(waiters') = IF n+1 <= Len(waiters) THEN Len(waiters) - (n+1) + 1 ELSE 0
      /\ \A i \in 1..Len(waiters) - (n+1) + 1 : waiters'[i] = waiters[(n+1) + i - 1]
  BY <1>1, <1>2, <1>3, SubSeqProperties
<1>5. Len(waiters') = Len(waiters) - n
  BY <1>1, <1>4
<1>6. \A i \in 1..Len(waiters') : waiters'[i] = waiters[n + i]
  BY <1>1, <1>4, <1>5
<1>7. pc' \in [Requests -> Stages]
  BY DEF Wake, Stages
<1> QED BY <1>4, <1>5, <1>6, <1>7

(* TypeOK is inductive on its own. *)
LEMMA TypeInit == Init => TypeOK
BY BoundsArePositive DEF Init, TypeOK, Stages, Codes

LEMMA TypeStep ==
  ASSUME TypeOK, [Next]_vars
  PROVE  TypeOK'
<1> USE DEF TypeOK, Stages, Codes, Move, Plan, vars, envVars, fileVars, semVars, metricVars
<1>1. ASSUME NEW r \in Requests, Arrive(r) PROVE TypeOK'
  <2>1. CASE Accept(r) BY <2>1 DEF Accept
  <2>2. ASSUME NEW c \in {400, 413}, Refuse(r, c) PROVE TypeOK'
    BY <2>2 DEF Refuse
  <2> HIDE DEF TypeOK
  <2> QED BY <1>1, <2>1, <2>2 DEF Arrive
<1>2. ASSUME NEW r \in Requests, Upload(r) PROVE TypeOK'
  <2>1. CASE CreateTemp(r) BY <2>1 DEF CreateTemp
  <2>2. CASE CreateTempFails(r) BY <2>2, ConcludeType DEF CreateTempFails
  <2>3. CASE WriteTemp(r) BY <2>3 DEF WriteTemp
  <2>4. ASSUME NEW c \in {413, 500}, WriteTempFails(r, c) PROVE TypeOK'
    BY <2>4 DEF WriteTempFails
  <2>5. CASE DiscardTemp(r) BY <2>5, ConcludeType DEF DiscardTemp
  <2>6. CASE DiscardTempFails(r) BY <2>6, ConcludeType DEF DiscardTempFails
  <2> HIDE DEF TypeOK
  <2> QED BY <1>2, <2>1, <2>2, <2>3, <2>4, <2>5, <2>6 DEF Upload
<1>3. ASSUME NEW r \in Requests, Schedule(r) PROVE TypeOK'
  <2>1. CASE MakeOutputDirFails(r) BY <2>1, ConcludeType DEF MakeOutputDirFails
  <2>2. CASE MakeOutputDirAndQueue(r)
    <3>1. waiters' \in Seq(Requests)
      BY <2>2, AppendProperties DEF MakeOutputDirAndQueue
    <3> QED BY <2>2, <3>1 DEF MakeOutputDirAndQueue
  <2>3. ASSUME NEW lim \in Limits, MakeOutputDirAndSubmit(r, lim)
        PROVE TypeOK'
    <3>1. limit' \in Nat /\ value' \in Nat
      BY <2>3, LimitBounds DEF MakeOutputDirAndSubmit, Locked
    <3> QED BY <2>3, <3>1 DEF MakeOutputDirAndSubmit
  <2>4. CASE MakeOutputDirAndFail(r) BY <2>4, ConcludeType DEF MakeOutputDirAndFail
  <2>5. CASE ResumeAndSubmit(r)
    <3> DEFINE n == Smaller(value, Len(waiters))
    <3>1. n \in 0..Len(waiters) /\ value - n \in Nat
      BY LenProperties DEF Smaller
    <3>2. waiters' \in Seq(Requests) /\ pc' \in [Requests -> Stages]
      BY <2>5, <3>1, WakeType DEF ResumeAndSubmit
    <3> QED BY <2>5, <3>1, <3>2 DEF ResumeAndSubmit
  <2>6. CASE ResumeAndFail(r)
    <3> DEFINE n == Smaller(value + 1, Len(waiters))
    <3>1. n \in 0..Len(waiters) /\ value + 1 - n \in Nat
      BY LenProperties DEF Smaller
    <3>2. waiters' \in Seq(Requests) /\ pc' \in [Requests -> Stages]
      BY <2>6, <3>1, WakeType DEF ResumeAndFail
    <3>3. active' \in Nat /\ totals' \in [{"success", "error"} -> Nat] /\ samples' \in Nat
      BY <2>6, ConcludeType DEF ResumeAndFail
    <3>4. value' \in Nat /\ code' \in [Requests -> Codes]
      BY <2>6, <3>1 DEF ResumeAndFail
    <3> QED BY <2>6, <3>2, <3>3, <3>4 DEF ResumeAndFail
  <2> HIDE DEF TypeOK
  <2> QED BY <1>3, <2>1, <2>2, <2>3, <2>4, <2>5, <2>6 DEF Schedule
<1>4. ASSUME NEW r \in Requests, Work(r) PROVE TypeOK'
  <2>1. CASE WorkerTakes(r) BY <2>1 DEF WorkerTakes
  <2>2. CASE WorkerConverts(r) BY <2>2 DEF WorkerConverts
  <2>3. CASE WorkerPublishes(r) BY <2>3 DEF WorkerPublishes
  <2>4. CASE WorkerGivesUp(r) BY <2>4 DEF WorkerGivesUp
  <2>5. CASE WorkerRaises(r) BY <2>5 DEF WorkerRaises
  <2> HIDE DEF TypeOK
  <2> QED BY <1>4, <2>1, <2>2, <2>3, <2>4, <2>5 DEF Work
<1>5. ASSUME NEW r \in Requests, NEW stage \in Stages, ReleaseTo(r, stage)
      PROVE  value' \in Nat /\ limit' \in Nat /\ waiters' \in Seq(Requests)
             /\ pc' \in [Requests -> Stages]
  <2> DEFINE n == Smaller(1, Len(waiters))
  <2>1. n \in 0..Len(waiters) /\ value + 1 - n \in Nat
    BY LenProperties DEF Smaller
  <2> QED BY <1>5, <2>1, WakeType DEF ReleaseTo
<1>6. ASSUME NEW r \in Requests, Answer(r) PROVE TypeOK'
  <2>1. CASE CollectPath(r) BY <2>1, <1>5 DEF CollectPath
  <2>2. CASE CollectFailure(r) BY <2>2, <1>5, ConcludeType DEF CollectFailure
  <2>3. CASE CheckOutput(r) BY <2>3, ConcludeType DEF CheckOutput
  <2>4. CASE CheckOutputFails(r) BY <2>4, ConcludeType DEF CheckOutputFails
  <2>5. CASE Unlink(r) BY <2>5 DEF Unlink
  <2>6. CASE UnlinkFails(r) BY <2>6 DEF UnlinkFails
  <2> QED BY <1>6, <2>1, <2>2, <2>3, <2>4, <2>5, <2>6 DEF Answer
<1>7. CASE WorkerDies BY <1>7 DEF WorkerDies
<1>8. CASE MemoryChanges BY <1>8 DEF MemoryChanges
<1>9. ASSUME Forget
      PROVE  /\ up' \in BOOLEAN /\ limit' \in Nat /\ value' \in Nat /\ waiters' \in Seq(Requests)
             /\ pool' \in {"none", "up", "broken"} /\ active' \in Nat /\ samples' \in Nat
             /\ totals' \in [{"success", "error"} -> Nat] /\ admitted' \subseteq Requests
             /\ UNCHANGED <<restarts, mem, tempFiles, undeletable, outDir>>
  <2>1. totals' \in [{"success", "error"} -> Nat]
    BY <1>9 DEF Forget
  <2>2. waiters' \in Seq(Requests)
    BY <1>9, EmptySeq DEF Forget
  <2> QED BY <1>9, <2>1, <2>2 DEF Forget
<1>10. CASE Shutdown BY <1>9, <1>10 DEF Shutdown
<1>11. CASE Kill BY <1>9, <1>11 DEF Kill
<1>12. CASE Restart BY <1>12, BoundsArePositive DEF Restart
<1>13. CASE UNCHANGED vars BY <1>13
<1> QED BY <1>1, <1>2, <1>3, <1>4, <1>6, <1>7, <1>8, <1>10, <1>11, <1>12, <1>13
        DEF Next, Progress, Stopped

(* Every reachable state is well typed, for any number of requests.         *)
THEOREM TypeCorrect == Spec => []TypeOK
BY TypeInit, TypeStep, PTL DEF Spec
-----------------------------------------------------------------------------
(* The semaphore.  Its accounting needs to know that the queue lists the    *)
(* waiting requests once each: only then do n wake-ups add n holders.       *)
Holders(progress) == {r \in Requests : progress[r] \in Holding}
NoQueueYet == limit = 0 => waiters = <<>>

SemaphoreInv ==
  QueueIsExact /\ PermitsConserved /\ NoLostWakeup /\ NoQueueYet

LEMMA HoldersFinite ==
  ASSUME NEW progress
  PROVE  IsFiniteSet(Holders(progress)) /\ Cardinality(Holders(progress)) \in Nat
BY RequestsFinite, FS_Subset, FS_CardinalityType DEF Holders

LEMMA MoveHolders ==
  ASSUME pc \in [Requests -> Stages], NEW r \in Requests, NEW stage \in Stages
  PROVE  LET before == Cardinality(Holders(pc))
             after == Cardinality(Holders([pc EXCEPT ![r] = stage]))
         IN  /\ (stage \in Holding <=> pc[r] \in Holding) => after = before
             /\ stage \in Holding /\ pc[r] \notin Holding => after = before + 1
             /\ stage \notin Holding /\ pc[r] \in Holding => after = before - 1
<1> DEFINE before == Holders(pc)
           after == Holders([pc EXCEPT ![r] = stage])
<1>0. IsFiniteSet(before)
  BY HoldersFinite
<1>1. (stage \in Holding <=> pc[r] \in Holding) => after = before
  BY DEF Holders
<1>2. stage \in Holding /\ pc[r] \notin Holding => r \notin before /\ after = before \cup {r}
  BY DEF Holders
<1>3. stage \notin Holding /\ pc[r] \in Holding => r \in before /\ after = before \ {r}
  BY DEF Holders
<1> HIDE DEF before, after
<1>4. /\ r \notin before => Cardinality(before \cup {r}) = Cardinality(before) + 1
      /\ r \in before => Cardinality(before \ {r}) = Cardinality(before) - 1
  BY <1>0, FS_AddElement, FS_RemoveElement
<1>5. /\ (stage \in Holding <=> pc[r] \in Holding) => Cardinality(after) = Cardinality(before)
      /\ stage \in Holding /\ pc[r] \notin Holding => Cardinality(after) = Cardinality(before) + 1
      /\ stage \notin Holding /\ pc[r] \in Holding => Cardinality(after) = Cardinality(before) - 1
  BY <1>1, <1>2, <1>3, <1>4
<1> QED BY <1>5 DEF before, after

(* What n wake-ups do, when the request that causes them moves as progress *)
(* says and no request enters or leaves the queue otherwise.                *)
LEMMA WakeEffect ==
  ASSUME TypeOK, QueueIsExact, NEW n \in 0..Len(waiters),
         NEW progress \in [Requests -> Stages], Wake(n, progress),
         \A q \in Requests : progress[q] = "waiting" <=> pc[q] = "waiting"
  PROVE  /\ QueueIsExact'
         /\ Cardinality(At(Holding)') = Cardinality(Holders(progress)) + n
         /\ n > 0 => At({"granted"})' # {}
<1> DEFINE woken == {waiters[i] : i \in 1..n}
<1>1. /\ waiters \in Seq(Requests) /\ Len(waiters) \in Nat /\ n \in Nat
      /\ \A i \in 1..Len(waiters) : waiters[i] \in Requests
  BY LenProperties, ElementOfSeq DEF TypeOK
<1>2. /\ waiters' \in Seq(Requests) /\ pc' \in [Requests -> Stages]
      /\ Len(waiters') = Len(waiters) - n
      /\ \A i \in 1..Len(waiters') : waiters'[i] = waiters[n + i]
  BY WakeType
<1>3. woken \subseteq Requests /\ \A q \in woken : pc[q] = "waiting" /\ progress[q] = "waiting"
  <2>1. \A i \in 1..n : i \in 1..Len(waiters)
    BY <1>1
  <2>2. \A i \in 1..Len(waiters) : waiters[i] \in At({"waiting"})
    BY DEF QueueIsExact
  <2> QED BY <2>1, <2>2 DEF At
<1>4. \A q \in Requests : pc'[q] = IF q \in woken THEN "granted" ELSE progress[q]
  BY DEF Wake
<1>5. QueueIsExact'
  <2>1. \A i, j \in 1..Len(waiters') : waiters'[i] = waiters'[j] => i = j
    BY <1>1, <1>2 DEF QueueIsExact
  <2>2. {waiters'[i] : i \in 1..Len(waiters')} = {waiters[i] : i \in n+1..Len(waiters)}
    <3>1. \A i \in n+1..Len(waiters) : i - n \in 1..Len(waiters') /\ waiters'[i - n] = waiters[i]
      BY <1>1, <1>2
    <3>2. \A i \in 1..Len(waiters') : n + i \in n+1..Len(waiters) /\ waiters'[i] = waiters[n + i]
      BY <1>1, <1>2
    <3> QED BY <3>1, <3>2
  <2>3. {waiters[i] : i \in n+1..Len(waiters)} = {waiters[i] : i \in 1..Len(waiters)} \ woken
    BY <1>1 DEF QueueIsExact
  <2>4. At({"waiting"})' = At({"waiting"}) \ woken
    BY <1>4 DEF At
  <2> QED BY <2>1, <2>2, <2>3, <2>4 DEF QueueIsExact
<1>6. At(Holding)' = Holders(progress) \cup woken
  BY <1>3, <1>4 DEF At, Holders, Holding
<1>7. Holders(progress) \cap woken = {}
  BY <1>3 DEF Holders, Holding, InPool, Resolved
<1>8. IsFiniteSet(woken) /\ Cardinality(woken) = n
  <2> DEFINE f == [i \in 1..n |-> waiters[i]]
  <2>1. f \in Bijection(1..n, woken)
    BY <1>1 DEF QueueIsExact, Bijection, Injection, Surjection, IsInjective
  <2>2. IsFiniteSet(1..n) /\ Cardinality(1..n) = n
    BY <1>1, FS_Interval
  <2> QED BY <2>1, <2>2, FS_Bijection DEF ExistsBijection
<1>9. Cardinality(At(Holding)') = Cardinality(Holders(progress)) + n
  <2> DEFINE held == Holders(progress)
  <2>1. IsFiniteSet(held) /\ Cardinality(held) \in Nat
    BY HoldersFinite
  <2> HIDE DEF held, woken
  <2>2. Cardinality(held \cup woken) = Cardinality(held) + Cardinality(woken)
    <3>1. Cardinality({}) = 0
      BY FS_EmptySet
    <3>2. Cardinality(held \cup woken) =
            Cardinality(held) + Cardinality(woken) - Cardinality(held \cap woken)
      BY <1>8, <2>1, FS_Union
    <3>3. held \cap woken = {}
      BY <1>7 DEF held
    <3>4. Cardinality(held \cap woken) = 0
      BY <3>1, <3>3
    <3>5. n \in Nat /\ Cardinality(woken) = n
      BY <1>1, <1>8
    <3> QED BY <2>1, <3>2, <3>4, <3>5
  <2> QED BY <1>6, <1>8, <2>2 DEF held
<1>10. n > 0 => At({"granted"})' # {}
  <2> SUFFICES ASSUME n > 0 PROVE waiters[1] \in At({"granted"})'
    OBVIOUS
  <2> QED BY <1>1, <1>3, <1>4 DEF At
<1> QED BY <1>5, <1>9, <1>10
-----------------------------------------------------------------------------
LEMMA AtHolding == At(Holding) = Holders(pc) /\ At(Holding)' = Holders(pc')
BY DEF At, Holders

(* A step of a request that neither takes nor returns a permit. *)
LEMMA OutsideStep ==
  ASSUME TypeOK, SemaphoreInv, NEW r \in Requests, NEW stage \in Stages,
         Move(r, stage), UNCHANGED semVars,
         pc[r] \in Holding <=> stage \in Holding,
         pc[r] \notin {"waiting", "granted"}, stage \notin {"waiting", "granted"}
  PROVE  SemaphoreInv'
<1> USE DEF TypeOK, Move, semVars
<1>1. At({"waiting"})' = At({"waiting"}) /\ At({"granted"})' = At({"granted"})
  BY DEF At
<1>2. At(Holding)' = At(Holding)
  BY DEF At
<1> QED BY <1>1, <1>2 DEF SemaphoreInv, QueueIsExact, PermitsConserved, NoLostWakeup, NoQueueYet, Larger

(* A request leaves the semaphore's block: the permit goes to the first     *)
(* waiter, or back to the semaphore.                                        *)
LEMMA ReleaseStep ==
  ASSUME TypeOK, SemaphoreInv, NEW r \in Requests, NEW stage \in {"checking", "unlinking"},
         pc[r] \in Resolved, ReleaseTo(r, stage)
  PROVE  SemaphoreInv'
<1> DEFINE n == Smaller(1, Len(waiters))
           progress == [pc EXCEPT ![r] = stage]
<1>1. n \in 0..Len(waiters) /\ Len(waiters) \in Nat /\ (n = 0 <=> Len(waiters) = 0)
      /\ n <= 1
  BY LenProperties DEF Smaller, TypeOK
<1>2. /\ progress \in [Requests -> Stages]
      /\ \A q \in Requests : progress[q] = "waiting" <=> pc[q] = "waiting"
      /\ stage \notin Holding /\ stage \in Stages /\ pc[r] \in Holding
  BY DEF TypeOK, Stages, Resolved, Holding, InPool
<1>3. Wake(n, progress) /\ value' = value + 1 - n /\ limit' = limit
  BY DEF ReleaseTo
<1>4. /\ QueueIsExact'
      /\ Cardinality(At(Holding)') = Cardinality(Holders(progress)) + n
      /\ n > 0 => At({"granted"})' # {}
  BY <1>1, <1>2, <1>3, WakeEffect DEF SemaphoreInv
<1>5. Cardinality(Holders(progress)) = Cardinality(At(Holding)) - 1
  BY <1>2, MoveHolders, AtHolding, HoldersFinite DEF TypeOK
<1>6. Len(waiters') = Len(waiters) - n /\ waiters' \in Seq(Requests)
  BY <1>1, <1>2, <1>3, WakeType
<1>7. PermitsConserved'
  <2> DEFINE h == Cardinality(At(Holding))
  <2>1. /\ value + h = limit /\ limit <= Larger(2, MaxWorkers)
        /\ h \in Nat /\ value \in Nat /\ limit \in Nat
    BY HoldersFinite, AtHolding DEF SemaphoreInv, PermitsConserved, TypeOK
  <2>2. Cardinality(At(Holding)') = h - 1 + n
    BY <1>4, <1>5
  <2> HIDE DEF h, n
  <2>3. value' + (h - 1 + n) = limit /\ value' >= 0
    <3>1. n \in Nat /\ n <= 1
      BY <1>1
    <3> QED BY <1>3, <2>1, <3>1
  <2> QED BY <1>3, <2>1, <2>2, <2>3 DEF PermitsConserved, Larger
<1>8. n = 0 => waiters' = <<>>
  BY <1>1, <1>6, EmptySeq
<1>9. waiters = <<>> => waiters' = <<>>
  BY <1>1, <1>6, EmptySeq
<1> QED BY <1>1, <1>3, <1>4, <1>7, <1>8, <1>9 DEF SemaphoreInv, NoLostWakeup, NoQueueYet

LEMMA QueueStep ==
  ASSUME TypeOK, SemaphoreInv, NEW r \in Requests, MakeOutputDirAndQueue(r)
  PROVE  SemaphoreInv'
<1> USE DEF TypeOK, MakeOutputDirAndQueue, Move
<1>1. /\ waiters' \in Seq(Requests) /\ Len(waiters') = Len(waiters) + 1 /\ Len(waiters) \in Nat
      /\ \A i \in 1..Len(waiters) : waiters'[i] = waiters[i] /\ waiters[i] \in Requests
      /\ waiters'[Len(waiters) + 1] = r
  BY AppendProperties, LenProperties, ElementOfSeq
<1>2. \A i \in 1..Len(waiters) : waiters[i] # r
  BY DEF SemaphoreInv, QueueIsExact, At
<1>3. At({"waiting"})' = At({"waiting"}) \cup {r}
  BY DEF At, Stages
<1>4. QueueIsExact'
  <2>1. \A i, j \in 1..Len(waiters') : waiters'[i] = waiters'[j] => i = j
    BY <1>1, <1>2 DEF SemaphoreInv, QueueIsExact
  <2>2. {waiters'[i] : i \in 1..Len(waiters')} = {waiters[i] : i \in 1..Len(waiters)} \cup {r}
    <3>1. 1..Len(waiters') = (1..Len(waiters)) \cup {Len(waiters) + 1}
      BY <1>1
    <3> QED BY <1>1, <3>1
  <2> QED BY <1>3, <2>1, <2>2 DEF SemaphoreInv, QueueIsExact
<1>5. At(Holding)' = At(Holding) /\ At({"granted"})' = At({"granted"})
  BY DEF At, Stages, Holding, InPool, Resolved
<1>6. PermitsConserved'
  BY <1>5 DEF SemaphoreInv, PermitsConserved, Larger
<1>7. NoLostWakeup'
  BY <1>5 DEF SemaphoreInv, NoLostWakeup, Locked
<1> QED BY <1>4, <1>6, <1>7 DEF SemaphoreInv, NoQueueYet

LEMMA SubmitStep ==
  ASSUME TypeOK, SemaphoreInv, NEW r \in Requests, NEW lim \in Limits,
         MakeOutputDirAndSubmit(r, lim)
  PROVE  SemaphoreInv'
<1> USE DEF TypeOK, MakeOutputDirAndSubmit, Move
<1>1. At({"waiting"})' = At({"waiting"}) /\ At({"granted"})' = At({"granted"})
  BY DEF At
<1>2. Cardinality(At(Holding)') = Cardinality(At(Holding)) + 1
  BY MoveHolders, AtHolding, HoldersFinite DEF Holding, InPool, Resolved, Stages
<1>3. limit = 0 => Cardinality(At(Holding)) = 0 /\ waiters = <<>>
  BY AtHolding, HoldersFinite DEF SemaphoreInv, PermitsConserved, NoQueueYet
<1>4. limit # 0 => waiters = <<>> /\ lim = limit
  BY DEF Locked
<1>5. PermitsConserved'
  <2>1. lim \in Nat /\ lim >= 1 /\ lim <= Larger(2, MaxWorkers)
    BY <1>4, LimitBounds DEF SemaphoreInv, PermitsConserved
  <2>2. value' >= 0 /\ value' + Cardinality(At(Holding)) + 1 = lim
    <3>1. CASE limit = 0
      BY <1>3, <2>1, <3>1
    <3>2. CASE limit # 0
      BY <1>4, <3>2, AtHolding, HoldersFinite DEF SemaphoreInv, PermitsConserved, Locked
    <3> QED BY <3>1, <3>2
  <2> QED BY <1>2, <2>1, <2>2, AtHolding, HoldersFinite DEF PermitsConserved, Larger
<1> QED BY <1>1, <1>3, <1>4, <1>5 DEF SemaphoreInv, QueueIsExact, NoLostWakeup, NoQueueYet
-----------------------------------------------------------------------------
LEMMA ResumeAndSubmitStep ==
  ASSUME TypeOK, SemaphoreInv, NEW r \in Requests, ResumeAndSubmit(r)
  PROVE  SemaphoreInv'
<1> DEFINE n == Smaller(value, Len(waiters))
           progress == [pc EXCEPT ![r] = "queued"]
<1>1. n \in 0..Len(waiters) /\ Len(waiters) \in Nat /\ value - n \in Nat
      /\ (n = value \/ n = Len(waiters))
  BY LenProperties DEF Smaller, TypeOK
<1>2. /\ progress \in [Requests -> Stages]
      /\ \A q \in Requests : progress[q] = "waiting" <=> pc[q] = "waiting"
  BY DEF TypeOK, Stages, ResumeAndSubmit
<1>3. Wake(n, progress) /\ value' = value - n /\ limit' = limit
  BY DEF ResumeAndSubmit
<1>4. QueueIsExact' /\ Cardinality(At(Holding)') = Cardinality(Holders(progress)) + n
  BY <1>1, <1>2, <1>3, WakeEffect DEF SemaphoreInv
<1>5. Cardinality(Holders(progress)) = Cardinality(At(Holding))
  BY MoveHolders, AtHolding, HoldersFinite
     DEF TypeOK, ResumeAndSubmit, Stages, Holding, InPool, Resolved
<1>6. Len(waiters') = Len(waiters) - n /\ waiters' \in Seq(Requests)
  BY <1>1, <1>2, <1>3, WakeType
<1>7. PermitsConserved'
  BY <1>1, <1>3, <1>4, <1>5, HoldersFinite, AtHolding
     DEF SemaphoreInv, PermitsConserved, TypeOK, Larger
<1>8. (n = Len(waiters) => waiters' = <<>>) /\ (waiters = <<>> => waiters' = <<>>)
  BY <1>1, <1>6, EmptySeq
<1>9. value' = 0 \/ waiters' = <<>>
  BY <1>1, <1>3, <1>8 DEF TypeOK
<1> QED BY <1>3, <1>4, <1>7, <1>8, <1>9 DEF SemaphoreInv, NoLostWakeup, NoQueueYet

LEMMA ResumeAndFailStep ==
  ASSUME TypeOK, SemaphoreInv, NEW r \in Requests, ResumeAndFail(r)
  PROVE  SemaphoreInv'
<1> DEFINE n == Smaller(value + 1, Len(waiters))
           progress == [pc EXCEPT ![r] = "unlinking"]
<1>1. n \in 0..Len(waiters) /\ Len(waiters) \in Nat /\ value + 1 - n \in Nat
      /\ (n = value + 1 \/ n = Len(waiters))
  BY LenProperties DEF Smaller, TypeOK
<1>2. /\ progress \in [Requests -> Stages]
      /\ \A q \in Requests : progress[q] = "waiting" <=> pc[q] = "waiting"
  BY DEF TypeOK, Stages, ResumeAndFail
<1>3. Wake(n, progress) /\ value' = value + 1 - n /\ limit' = limit
  BY DEF ResumeAndFail
<1>4. QueueIsExact' /\ Cardinality(At(Holding)') = Cardinality(Holders(progress)) + n
  BY <1>1, <1>2, <1>3, WakeEffect DEF SemaphoreInv
<1>5. Cardinality(Holders(progress)) = Cardinality(At(Holding)) - 1
  BY MoveHolders, AtHolding, HoldersFinite
     DEF TypeOK, ResumeAndFail, Stages, Holding, InPool, Resolved
<1>6. Len(waiters') = Len(waiters) - n /\ waiters' \in Seq(Requests)
  BY <1>1, <1>2, <1>3, WakeType
<1>7. PermitsConserved'
  <2> DEFINE h == Cardinality(At(Holding))
  <2>1. /\ value + h = limit /\ limit <= Larger(2, MaxWorkers)
        /\ h \in Nat /\ value \in Nat /\ limit \in Nat
    BY HoldersFinite, AtHolding DEF SemaphoreInv, PermitsConserved, TypeOK
  <2>2. Cardinality(At(Holding)') = h - 1 + n
    BY <1>4, <1>5
  <2> HIDE DEF h, n
  <2>3. value' + (h - 1 + n) = limit /\ value' >= 0
    BY <1>1, <1>3, <2>1
  <2> QED BY <1>3, <2>1, <2>2, <2>3 DEF PermitsConserved, Larger
<1>8. (n = Len(waiters) => waiters' = <<>>) /\ (waiters = <<>> => waiters' = <<>>)
  BY <1>1, <1>6, EmptySeq
<1>9. value' = 0 \/ waiters' = <<>>
  BY <1>1, <1>3, <1>8 DEF TypeOK
<1> QED BY <1>3, <1>4, <1>7, <1>8, <1>9 DEF SemaphoreInv, NoLostWakeup, NoQueueYet

(* When the process stops no request is left at any await. *)
LEMMA ForgetStep ==
  ASSUME TypeOK, Forget, At(Stages \ Settled)' = {}
  PROVE  SemaphoreInv'
<1>1. At(Holding)' = {} /\ At({"waiting"})' = {}
  BY DEF At, Stages, Settled, Holding, InPool, Resolved
<1>2. Cardinality(At(Holding)') = 0
  BY <1>1, FS_EmptySet
<1>3. waiters' = <<>> /\ Len(waiters') = 0 /\ limit' = 0 /\ value' = 0
  BY EmptySeq DEF Forget
<1>4. QueueIsExact'
  BY <1>1, <1>3 DEF QueueIsExact
<1>5. PermitsConserved'
  BY <1>2, <1>3, BoundsArePositive DEF PermitsConserved, Larger
<1> QED BY <1>3, <1>4, <1>5 DEF SemaphoreInv, NoLostWakeup, NoQueueYet

LEMMA SemaphoreInit == Init => SemaphoreInv
<1> SUFFICES ASSUME Init PROVE SemaphoreInv
  OBVIOUS
<1>1. At(Holding) = {} /\ At({"waiting"}) = {}
  BY DEF Init, At, Holding, InPool, Resolved
<1>2. Cardinality(At(Holding)) = 0
  BY <1>1, FS_EmptySet
<1>3. waiters = <<>> /\ Len(waiters) = 0 /\ limit = 0 /\ value = 0
  BY EmptySeq DEF Init
<1> QED BY <1>1, <1>2, <1>3, BoundsArePositive
        DEF SemaphoreInv, QueueIsExact, PermitsConserved, NoLostWakeup, NoQueueYet, Larger

LEMMA SemaphoreStep ==
  ASSUME TypeOK, SemaphoreInv, [Next]_vars
  PROVE  SemaphoreInv'
<1> USE DEF Stages, Holding, InPool, Resolved
<1>1. ASSUME NEW r \in Requests, Arrive(r) PROVE SemaphoreInv'
  BY <1>1, OutsideStep DEF Arrive, Accept, Refuse
<1>2. ASSUME NEW r \in Requests, Upload(r) PROVE SemaphoreInv'
  BY <1>2, OutsideStep DEF Upload, CreateTemp, CreateTempFails, WriteTemp, WriteTempFails,
                           DiscardTemp, DiscardTempFails
<1>3. ASSUME NEW r \in Requests, Schedule(r) PROVE SemaphoreInv'
  <2>1. CASE MakeOutputDirFails(r) BY <2>1, OutsideStep DEF MakeOutputDirFails
  <2>2. CASE MakeOutputDirAndFail(r) BY <2>2, OutsideStep DEF MakeOutputDirAndFail
  <2> QED BY <1>3, <2>1, <2>2, QueueStep, SubmitStep, ResumeAndSubmitStep, ResumeAndFailStep
          DEF Schedule
<1>4. ASSUME NEW r \in Requests, Work(r) PROVE SemaphoreInv'
  BY <1>4, OutsideStep DEF Work, WorkerTakes, WorkerConverts, WorkerPublishes,
                           WorkerGivesUp, WorkerRaises
<1>5. ASSUME NEW r \in Requests, Answer(r) PROVE SemaphoreInv'
  <2>1. CASE CollectPath(r) BY <2>1, ReleaseStep DEF CollectPath
  <2>2. CASE CollectFailure(r) BY <2>2, ReleaseStep DEF CollectFailure
  <2>3. CASE CheckOutput(r) \/ CheckOutputFails(r) \/ Unlink(r) \/ UnlinkFails(r)
    BY <2>3, OutsideStep DEF CheckOutput, CheckOutputFails, Unlink, UnlinkFails
  <2> QED BY <1>5, <2>1, <2>2, <2>3 DEF Answer
<1>6. CASE WorkerDies
  <2>1. /\ At(Holding)' = At(Holding) /\ At({"waiting"})' = At({"waiting"})
        /\ At({"granted"})' = At({"granted"})
    BY <1>6 DEF WorkerDies, TypeOK, At
  <2> QED BY <1>6, <2>1 DEF WorkerDies, semVars, SemaphoreInv, QueueIsExact, PermitsConserved,
                            NoLostWakeup, NoQueueYet, Larger
<1>7. CASE Shutdown
  BY <1>7, ForgetStep DEF Shutdown, InFlight, At
<1>8. CASE Kill
  <2>1. At(Stages \ Settled)' = {}
    BY <1>8 DEF Kill, InFlight, At, Settled, TypeOK
  <2> QED BY <1>8, <2>1, ForgetStep DEF Kill
<1>9. CASE MemoryChanges \/ Restart \/ UNCHANGED vars
  <2>1. UNCHANGED <<pc, semVars>>
    BY <1>9 DEF MemoryChanges, Restart, vars
  <2>2. At(Holding)' = At(Holding) /\ At({"waiting"})' = At({"waiting"})
        /\ At({"granted"})' = At({"granted"})
    BY <2>1 DEF At
  <2> QED BY <2>1, <2>2 DEF semVars, SemaphoreInv, QueueIsExact, PermitsConserved,
                            NoLostWakeup, NoQueueYet, Larger
<1> QED BY <1>1, <1>2, <1>3, <1>4, <1>5, <1>6, <1>7, <1>8, <1>9 DEF Next, Progress, Stopped

(* Permits are never lost nor multiplied and the queue never forgets a      *)
(* request, whatever requests, workers and faults there are.                *)
THEOREM SemaphoreCorrect == Spec => [](PermitsConserved /\ QueueIsExact /\ NoLostWakeup)
<1>1. Init => TypeOK /\ SemaphoreInv
  BY TypeInit, SemaphoreInit
<1>2. TypeOK /\ SemaphoreInv /\ [Next]_vars => (TypeOK /\ SemaphoreInv)'
  BY TypeStep, SemaphoreStep
<1>3. SemaphoreInv => PermitsConserved /\ QueueIsExact /\ NoLostWakeup
  BY DEF SemaphoreInv
<1> QED BY <1>1, <1>2, <1>3, PTL DEF Spec

(* No request waits for a permit that is free: release always wakes the one *)
(* that has waited longest, also when a request fails (server.py:608).      *)
THEOREM NobodyWaitsBesideAPermit == Spec => []NoLostWakeup
BY SemaphoreCorrect, PTL

-----------------------------------------------------------------------------
(* First come, first served: only a wake-up grants, and it serves a prefix  *)
(* of the queue; only a free semaphore admits without queueing.             *)
InOrder ==
  \A i, j \in 1..Len(waiters) :
    i < j /\ pc'[waiters[j]] = "granted" => pc'[waiters[i]] = "granted"
NoBarging ==
  \A r \in Requests :
    pc[r] = "mkdir" /\ pc'[r] = "queued" => At({"waiting", "granted"}) = {}

LEMMA WaitersWait ==
  ASSUME TypeOK, QueueIsExact
  PROVE  \A i \in 1..Len(waiters) : waiters[i] \in Requests /\ pc[waiters[i]] = "waiting"
BY ElementOfSeq DEF TypeOK, QueueIsExact, At

LEMMA MoveInOrder ==
  ASSUME TypeOK, QueueIsExact, NEW r \in Requests, NEW stage, stage # "granted",
         Move(r, stage), ~(pc[r] = "mkdir" /\ stage = "queued")
  PROVE  InOrder /\ NoBarging
BY WaitersWait DEF Move, InOrder, NoBarging, TypeOK

LEMMA WakeInOrder ==
  ASSUME TypeOK, QueueIsExact, NEW n \in 0..Len(waiters), NEW r \in Requests, pc[r] # "mkdir",
         NEW stage, stage # "granted", Wake(n, [pc EXCEPT ![r] = stage])
  PROVE  InOrder /\ NoBarging
<1>1. Len(waiters) \in Nat /\ n \in Nat
  BY LenProperties DEF TypeOK
<1>2. InOrder
  <2> SUFFICES ASSUME NEW i \in 1..Len(waiters), NEW j \in 1..Len(waiters), i < j,
                      pc'[waiters[j]] = "granted"
               PROVE  pc'[waiters[i]] = "granted"
    BY DEF InOrder
  <2>1. PICK k \in 1..n : waiters[k] = waiters[j]
    BY WaitersWait DEF Wake, TypeOK
  <2>2. i \in 1..n
    BY <1>1, <2>1 DEF QueueIsExact
  <2> QED BY <2>2, WaitersWait DEF Wake
<1>3. NoBarging
  BY DEF Wake, NoBarging, TypeOK
<1> QED BY <1>2, <1>3

LEMMA OrderStep ==
  ASSUME TypeOK, SemaphoreInv, [Next]_vars
  PROVE  InOrder /\ NoBarging
<1> USE DEF SemaphoreInv
<1>1. ASSUME NEW r \in Requests, Arrive(r) \/ Upload(r) PROVE InOrder /\ NoBarging
  BY <1>1, MoveInOrder DEF Arrive, Accept, Refuse, Upload, CreateTemp, CreateTempFails,
     WriteTemp, WriteTempFails, DiscardTemp, DiscardTempFails
<1>2. ASSUME NEW r \in Requests, Schedule(r) PROVE InOrder /\ NoBarging
  <2>1. ASSUME NEW lim \in Limits, MakeOutputDirAndSubmit(r, lim)
        PROVE InOrder /\ NoBarging
    <3>1. At({"waiting", "granted"}) = {}
      <4>1. CASE limit = 0
        <5>1. At(Holding) = {} /\ waiters = <<>>
          BY <4>1, HoldersFinite, AtHolding, FS_EmptySet DEF TypeOK, PermitsConserved, NoQueueYet
        <5> QED BY <5>1, EmptySeq DEF QueueIsExact, At, Holding
      <4>2. CASE limit # 0
        BY <2>1, <4>2, EmptySeq DEF MakeOutputDirAndSubmit, Locked, QueueIsExact, At
      <4> QED BY <4>1, <4>2
    <3>2. InOrder
      BY <2>1, WaitersWait DEF MakeOutputDirAndSubmit, Move, InOrder, TypeOK
    <3> QED BY <3>1, <3>2 DEF NoBarging
  <2>2. CASE ResumeAndSubmit(r)
    <3>1. Smaller(value, Len(waiters)) \in 0..Len(waiters)
      BY LenProperties DEF TypeOK, Smaller
    <3> QED BY <2>2, <3>1, WakeInOrder DEF ResumeAndSubmit
  <2>3. CASE ResumeAndFail(r)
    <3>1. Smaller(value + 1, Len(waiters)) \in 0..Len(waiters)
      BY LenProperties DEF TypeOK, Smaller
    <3> QED BY <2>3, <3>1, WakeInOrder DEF ResumeAndFail
  <2>4. CASE MakeOutputDirFails(r) \/ MakeOutputDirAndQueue(r) \/ MakeOutputDirAndFail(r)
    BY <2>4, MoveInOrder DEF MakeOutputDirFails, MakeOutputDirAndQueue, MakeOutputDirAndFail
  <2> QED BY <1>2, <2>1, <2>2, <2>3, <2>4 DEF Schedule
<1>3. ASSUME NEW r \in Requests, Work(r) PROVE InOrder /\ NoBarging
  BY <1>3, MoveInOrder DEF Work, WorkerTakes, WorkerConverts, WorkerPublishes,
     WorkerGivesUp, WorkerRaises
<1>4. ASSUME NEW r \in Requests, Answer(r) PROVE InOrder /\ NoBarging
  <2>1. Smaller(1, Len(waiters)) \in 0..Len(waiters)
    BY LenProperties DEF TypeOK, Smaller
  <2>2. CASE CollectPath(r) BY <2>1, <2>2, WakeInOrder DEF CollectPath, ReleaseTo
  <2>3. CASE CollectFailure(r) BY <2>1, <2>3, WakeInOrder DEF CollectFailure, ReleaseTo
  <2>4. CASE CheckOutput(r) \/ CheckOutputFails(r) \/ Unlink(r) \/ UnlinkFails(r)
    BY <2>4, MoveInOrder DEF CheckOutput, CheckOutputFails, Unlink, UnlinkFails
  <2> QED BY <1>4, <2>2, <2>3, <2>4 DEF Answer
<1>5. CASE WorkerDies \/ Shutdown \/ Kill
  BY <1>5, WaitersWait DEF WorkerDies, Shutdown, Kill, InOrder, NoBarging, TypeOK, InPool
<1>6. CASE MemoryChanges \/ Restart \/ UNCHANGED vars
  BY <1>6, WaitersWait DEF MemoryChanges, Restart, vars, InOrder, NoBarging
<1> QED BY <1>1, <1>2, <1>3, <1>4, <1>5, <1>6 DEF Next, Progress, Stopped

(* No request overtakes another at the semaphore, in any execution.         *)
THEOREM AdmissionOrdered == Spec => AdmissionIsFifo
<1>1. TypeOK /\ SemaphoreInv /\ [Next]_vars => (TypeOK /\ SemaphoreInv)'
  BY TypeStep, SemaphoreStep
<1>2. TypeOK /\ SemaphoreInv /\ [Next]_vars => InOrder /\ NoBarging
  BY OrderStep
<1> QED BY <1>1, <1>2, TypeInit, SemaphoreInit, PTL
        DEF Spec, AdmissionIsFifo, InOrder, NoBarging
-----------------------------------------------------------------------------
(* The files.  An upload exists exactly from its creation to its unlink: a  *)
(* request before that has none, one that is written has one.  An output    *)
(* that is complete stays so, for its directory is written only before the  *)
(* status is known.                                                          *)
UploadMatchesStage ==
  /\ At({"new", "refused", "creating"}) \cap tempFiles = {}
  /\ At({"writing"}) \subseteq tempFiles

OutputComplete ==
  /\ \A r \in At({"converted", "checking"}) : outDir[r] = "full"
  /\ \A r \in Requests : code[r] = 200 => /\ outDir[r] = "full"
                                          /\ pc[r] \in {"unlinking", "answered"}

FileInv == UploadsReclaimed /\ InputOutlivesTask /\ UploadMatchesStage /\ OutputComplete

LEMMA FileInit == Init => FileInv
BY DEF Init, FileInv, UploadsReclaimed, InputOutlivesTask, UploadMatchesStage, OutputComplete, At

(* A wake-up leaves the files alone and keeps the woken request's upload.   *)
LEMMA WakeFiles ==
  ASSUME TypeOK, QueueIsExact, FileInv, NEW n \in 0..Len(waiters), NEW r \in Requests,
         NEW stage \in {"queued", "checking", "unlinking"}, pc[r] \in Holding,
         stage = "queued" => pc[r] = "granted", stage = "checking" => pc[r] = "converted",
         Wake(n, [pc EXCEPT ![r] = stage]), UNCHANGED fileVars,
         code' = code \/ code' = [code EXCEPT ![r] = 500]
  PROVE  FileInv'
<1> DEFINE woken == {waiters[i] : i \in 1..n}
<1>1. \A q \in woken : q \in Requests /\ pc[q] = "waiting"
  BY WaitersWait, LenProperties DEF TypeOK
<1>2. \A q \in Requests : pc'[q] = IF q \in woken THEN "granted" ELSE IF q = r THEN stage ELSE pc[q]
  BY DEF Wake, TypeOK
<1> USE DEF fileVars, TypeOK, FileInv, At, Holding, InPool, Resolved
<1>3. UploadsReclaimed'
  BY <1>1, <1>2 DEF UploadsReclaimed, InFlight, Stages, Settled
<1>4. InputOutlivesTask' /\ UploadMatchesStage'
  BY <1>1, <1>2 DEF InputOutlivesTask, UploadMatchesStage
<1>5. OutputComplete'
  <2>1. outDir' = outDir /\ \A q \in Requests : code'[q] = 200 => code[q] = 200
    OBVIOUS
  <2>2. ASSUME NEW q \in Requests, pc'[q] \in {"converted", "checking"}
        PROVE  pc[q] \in {"converted", "checking"}
    BY <1>2, <2>2
  <2>3. ASSUME NEW q \in Requests, pc[q] \in {"unlinking", "answered"}
        PROVE  pc'[q] \in {"unlinking", "answered"}
    BY <1>1, <1>2, <2>3
  <2>4. \A q \in Requests : /\ pc[q] \in {"converted", "checking"} => outDir[q] = "full"
                            /\ code[q] = 200 => /\ outDir[q] = "full"
                                               /\ pc[q] \in {"unlinking", "answered"}
    BY DEF OutputComplete
  <2> HIDE DEF TypeOK, FileInv, Holding, fileVars
  <2> QED BY <2>1, <2>2, <2>3, <2>4 DEF OutputComplete
<1> QED BY <1>3, <1>4, <1>5

LEMMA FileStep ==
  ASSUME TypeOK, SemaphoreInv, FileInv, [Next]_vars
  PROVE  FileInv'
<1> USE DEF fileVars, TypeOK, FileInv, UploadsReclaimed, InputOutlivesTask, UploadMatchesStage,
            OutputComplete, InFlight, Stages, Settled, At, Move, Plan
<1>1. ASSUME NEW r \in Requests, Arrive(r) PROVE FileInv'
  BY <1>1 DEF Arrive, Accept, Refuse
<1>2. ASSUME NEW r \in Requests, Upload(r) PROVE FileInv'
  <2>1. CASE CreateTemp(r) BY <2>1 DEF CreateTemp
  <2>2. CASE CreateTempFails(r) BY <2>2 DEF CreateTempFails
  <2>3. CASE WriteTemp(r) BY <2>3 DEF WriteTemp
  <2>4. ASSUME NEW c \in {413, 500}, WriteTempFails(r, c) PROVE FileInv'
    BY <2>4 DEF WriteTempFails
  <2>5. CASE DiscardTemp(r) BY <2>5 DEF DiscardTemp
  <2>6. CASE DiscardTempFails(r) BY <2>6 DEF DiscardTempFails
  <2> QED BY <1>2, <2>1, <2>2, <2>3, <2>4, <2>5, <2>6 DEF Upload
<1>3. ASSUME NEW r \in Requests, Schedule(r) PROVE FileInv'
  <2>1. CASE MakeOutputDirFails(r) BY <2>1 DEF MakeOutputDirFails
  <2>2. CASE MakeOutputDirAndQueue(r) BY <2>2 DEF MakeOutputDirAndQueue
  <2>3. ASSUME NEW lim, MakeOutputDirAndSubmit(r, lim) PROVE FileInv'
    BY <2>3 DEF MakeOutputDirAndSubmit
  <2>4. CASE MakeOutputDirAndFail(r) BY <2>4 DEF MakeOutputDirAndFail
  <2>5. CASE ResumeAndSubmit(r)
    <3>1. Smaller(value, Len(waiters)) \in 0..Len(waiters)
      BY LenProperties DEF Smaller
    <3>2. /\ pc[r] = "granted" /\ code' = code /\ UNCHANGED fileVars
          /\ Wake(Smaller(value, Len(waiters)), [pc EXCEPT ![r] = "queued"])
      BY <2>5 DEF ResumeAndSubmit
    <3>3. pc[r] \in Holding
      BY <3>2 DEF Holding
    <3> HIDE DEF FileInv, TypeOK
    <3> QED BY <3>1, <3>2, <3>3, WakeFiles DEF SemaphoreInv
  <2>6. CASE ResumeAndFail(r)
    <3>1. Smaller(value + 1, Len(waiters)) \in 0..Len(waiters)
      BY LenProperties DEF Smaller
    <3>2. /\ pc[r] \in Holding /\ code' = [code EXCEPT ![r] = 500] /\ UNCHANGED fileVars
          /\ Wake(Smaller(value + 1, Len(waiters)), [pc EXCEPT ![r] = "unlinking"])
      BY <2>6 DEF ResumeAndFail, Holding
    <3> HIDE DEF FileInv
    <3> QED BY <3>1, <3>2, WakeFiles DEF SemaphoreInv
  <2> QED BY <1>3, <2>1, <2>2, <2>3, <2>4, <2>5, <2>6 DEF Schedule
<1>4. ASSUME NEW r \in Requests, Work(r) PROVE FileInv'
  <2>1. CASE WorkerTakes(r) \/ WorkerGivesUp(r) \/ WorkerRaises(r)
    BY <2>1 DEF WorkerTakes, WorkerGivesUp, WorkerRaises
  <2>2. CASE WorkerConverts(r) BY <2>2 DEF WorkerConverts
  <2>3. CASE WorkerPublishes(r) BY <2>3 DEF WorkerPublishes
  <2> QED BY <1>4, <2>1, <2>2, <2>3 DEF Work
<1>5. ASSUME NEW r \in Requests, Answer(r) PROVE FileInv'
  <2>1. Smaller(1, Len(waiters)) \in 0..Len(waiters)
    BY LenProperties DEF Smaller
  <2>2. CASE CollectPath(r)
    <3>1. /\ pc[r] = "converted" /\ code' = code /\ UNCHANGED fileVars
          /\ Wake(Smaller(1, Len(waiters)), [pc EXCEPT ![r] = "checking"])
      BY <2>2 DEF CollectPath, ReleaseTo
    <3>2. pc[r] \in Holding
      BY <3>1 DEF Holding, Resolved
    <3> HIDE DEF FileInv, TypeOK
    <3> QED BY <2>1, <3>1, <3>2, WakeFiles DEF SemaphoreInv
  <2>3. CASE CollectFailure(r)
    <3>1. /\ pc[r] \in {"unconverted", "raised"} /\ UNCHANGED fileVars
          /\ code' = [code EXCEPT ![r] = 500]
          /\ Wake(Smaller(1, Len(waiters)), [pc EXCEPT ![r] = "unlinking"])
      BY <2>3 DEF CollectFailure, ReleaseTo
    <3>2. pc[r] \in Holding
      BY <3>1 DEF Holding, Resolved
    <3> HIDE DEF FileInv, TypeOK
    <3> QED BY <2>1, <3>1, <3>2, WakeFiles DEF SemaphoreInv
  <2>4. CASE CheckOutput(r) BY <2>4 DEF CheckOutput
  <2>5. CASE CheckOutputFails(r) BY <2>5 DEF CheckOutputFails
  <2>6. CASE Unlink(r) BY <2>6 DEF Unlink
  <2>7. CASE UnlinkFails(r) BY <2>7 DEF UnlinkFails
  <2> QED BY <1>5, <2>2, <2>3, <2>4, <2>5, <2>6, <2>7 DEF Answer
<1>6. CASE WorkerDies BY <1>6 DEF WorkerDies, InPool
<1>7. CASE Shutdown BY <1>7 DEF Shutdown, Forget
<1>8. CASE Kill BY <1>8 DEF Kill, Forget
<1>9. CASE MemoryChanges \/ Restart \/ UNCHANGED vars
  BY <1>9 DEF MemoryChanges, Restart, vars
<1> QED BY <1>1, <1>2, <1>3, <1>4, <1>5, <1>6, <1>7, <1>8, <1>9 DEF Next, Progress, Stopped

(* Uploads are reclaimed but never under a conversion, and a 200 always     *)
(* means a complete output, in any execution.                               *)
THEOREM FilesCorrect == Spec => [](UploadsReclaimed /\ InputOutlivesTask /\ SuccessIsPublished)
<1>1. TypeOK /\ SemaphoreInv /\ FileInv /\ [Next]_vars => (TypeOK /\ SemaphoreInv /\ FileInv)'
  BY TypeStep, SemaphoreStep, FileStep
<1>2. FileInv => UploadsReclaimed /\ InputOutlivesTask /\ SuccessIsPublished
  BY DEF FileInv, OutputComplete, SuccessIsPublished
<1> QED BY <1>1, <1>2, TypeInit, SemaphoreInit, FileInit, PTL DEF Spec

(* A task that the pool still has to run finds its upload: the clean-up of *)
(* convert_file comes after the answer of the worker (server.py:683).      *)
THEOREM InputsOutliveTasks == Spec => []InputOutlivesTask
BY FilesCorrect, PTL

(* A request that was answered with success has all its files where the *)
(* download looks for them (pool.py:123-127).                           *)
THEOREM SuccessesArePublished == Spec => []SuccessIsPublished
BY FilesCorrect, PTL
-----------------------------------------------------------------------------
(* ConversionServer implements ConversionService: every step of the server *)
(* is, to its clients, a step of the service or none.                       *)
PendingStages == {"creating", "writing", "discarding", "mkdir", "waiting", "granted"}
ConvertingStages == InPool \cup Resolved

(* The status planned for a request that is on its way out.                 *)
PlannedCodes ==
  /\ \A r \in At({"discarding"}) : code[r] \in {413, 500}
  /\ \A r \in At({"unlinking"}) : code[r] \in {200, 500}

LEMMA StageCases ==
  ASSUME NEW r, pc[r] \in Stages
  PROVE  /\ pc[r] \in Settled => StageOf(r) = pc[r]
         /\ pc[r] \in PendingStages => StageOf(r) = "pending"
         /\ pc[r] \in ConvertingStages => StageOf(r) = "converting"
         /\ pc[r] = "checking" => StageOf(r) = "converted"
         /\ pc[r] = "unlinking" /\ code[r] = 200 => StageOf(r) = "succeeded"
         /\ pc[r] = "unlinking" /\ code[r] # 200 => StageOf(r) = "failed"
BY DEF StageOf, Stages, Settled, PendingStages, ConvertingStages, InPool, Resolved

(* The same for the next state. *)
LEMMA StageCasesNext ==
  ASSUME NEW r, pc'[r] \in Stages
  PROVE  /\ pc'[r] \in Settled => StageOf(r)' = pc'[r]
         /\ pc'[r] \in PendingStages => StageOf(r)' = "pending"
         /\ pc'[r] \in ConvertingStages => StageOf(r)' = "converting"
         /\ pc'[r] = "checking" => StageOf(r)' = "converted"
         /\ pc'[r] = "unlinking" /\ code'[r] = 200 => StageOf(r)' = "succeeded"
         /\ pc'[r] = "unlinking" /\ code'[r] # 200 => StageOf(r)' = "failed"
BY DEF StageOf, Stages, Settled, PendingStages, ConvertingStages, InPool, Resolved

(* A step in which one request moves, and others at most from the queue to  *)
(* a wake-up, is a step of that request alone for the clients.              *)
LEMMA OneRequestMoves ==
  ASSUME TypeOK, TypeOK', NEW r \in Requests,
         \A q \in Requests \ {r} : /\ code'[q] = code[q]
                                   /\ \/ pc'[q] = pc[q]
                                      \/ pc[q] = "waiting" /\ pc'[q] = "granted"
  PROVE  /\ StageSeen' = [StageSeen EXCEPT ![r] = StageOf(r)']
         /\ ReplySeen' = [ReplySeen EXCEPT ![r] =
                            IF pc'[r] \in {"refused", "answered"} THEN code'[r] ELSE 0]
<1>1. ASSUME NEW q \in Requests \ {r} PROVE StageOf(q)' = StageOf(q)
  <2>1. CASE pc'[q] = pc[q] BY <2>1 DEF StageOf
  <2>2. CASE pc[q] = "waiting" /\ pc'[q] = "granted"
    BY <2>2, StageCases, StageCasesNext DEF PendingStages, TypeOK
  <2> QED BY <2>1, <2>2
<1>2. StageSeen' = [StageSeen EXCEPT ![r] = StageOf(r)']
  BY <1>1 DEF StageSeen
<1>3. ReplySeen' = [ReplySeen EXCEPT ![r] =
                      IF pc'[r] \in {"refused", "answered"} THEN code'[r] ELSE 0]
  BY DEF ReplySeen
<1> QED BY <1>2, <1>3
-----------------------------------------------------------------------------
LEMMA PlannedInit == Init => PlannedCodes
BY DEF Init, PlannedCodes, At

LEMMA PlannedStep ==
  ASSUME TypeOK, QueueIsExact, PlannedCodes, [Next]_vars
  PROVE  PlannedCodes'
<1> USE DEF PlannedCodes, At, TypeOK, Stages, Move, Plan
<1>1. ASSUME NEW r \in Requests, Arrive(r) PROVE PlannedCodes'
  BY <1>1 DEF Arrive, Accept, Refuse
<1>2. ASSUME NEW r \in Requests, Upload(r) PROVE PlannedCodes'
  BY <1>2 DEF Upload, CreateTemp, CreateTempFails, WriteTemp, WriteTempFails, DiscardTemp,
              DiscardTempFails
<1>3. ASSUME NEW r \in Requests, Schedule(r) PROVE PlannedCodes'
  <2>1. CASE ResumeAndSubmit(r) BY <2>1 DEF ResumeAndSubmit, Wake
  <2>2. CASE ResumeAndFail(r) BY <2>2 DEF ResumeAndFail, Wake
  <2>3. CASE MakeOutputDirFails(r) BY <2>3 DEF MakeOutputDirFails
  <2>4. CASE MakeOutputDirAndQueue(r) BY <2>4 DEF MakeOutputDirAndQueue
  <2>5. ASSUME NEW lim, MakeOutputDirAndSubmit(r, lim) PROVE PlannedCodes'
    BY <2>5 DEF MakeOutputDirAndSubmit
  <2>6. CASE MakeOutputDirAndFail(r) BY <2>6 DEF MakeOutputDirAndFail
  <2> HIDE DEF PlannedCodes, TypeOK
  <2> QED BY <1>3, <2>1, <2>2, <2>3, <2>4, <2>5, <2>6 DEF Schedule
<1>4. ASSUME NEW r \in Requests, Work(r) PROVE PlannedCodes'
  BY <1>4 DEF Work, WorkerTakes, WorkerConverts, WorkerPublishes, WorkerGivesUp, WorkerRaises
<1>5. ASSUME NEW r \in Requests, Answer(r) PROVE PlannedCodes'
  <2>1. CASE CollectPath(r) BY <2>1 DEF CollectPath, ReleaseTo, Wake
  <2>2. CASE CollectFailure(r) BY <2>2 DEF CollectFailure, ReleaseTo, Wake
  <2> QED BY <1>5, <2>1, <2>2 DEF Answer, CheckOutput, CheckOutputFails, Unlink, UnlinkFails
<1>6. CASE WorkerDies BY <1>6 DEF WorkerDies
<1>7. CASE Shutdown \/ Kill BY <1>7 DEF Shutdown, Kill, InFlight, Settled
<1>8. CASE MemoryChanges \/ Restart \/ UNCHANGED vars BY <1>8 DEF MemoryChanges, Restart, vars
<1> QED BY <1>1, <1>2, <1>3, <1>4, <1>5, <1>6, <1>7, <1>8 DEF Next, Progress, Stopped

(* The abstract slots have room whenever a task is submitted. *)
LEMMA RoomToStart ==
  ASSUME TypeOK, SemaphoreInv, NEW r \in Requests,
         \/ pc[r] = "granted"
         \/ value > 0
  PROVE  Cardinality(At(ConvertingStages)) < limit
<1> DEFINE C == At(ConvertingStages)
           H == At(Holding)
<1>1. C \in SUBSET H /\ IsFiniteSet(H) /\ Cardinality(H) \in Nat
  BY AtHolding, HoldersFinite DEF At, Holding, ConvertingStages
<1>2. IsFiniteSet(C) /\ Cardinality(C) \in Nat /\ Cardinality(C) <= Cardinality(H)
      /\ (Cardinality(C) = Cardinality(H) => C = H)
  BY <1>1, FS_Subset, FS_CardinalityType
<1>3. value + Cardinality(H) = limit
  BY DEF SemaphoreInv, PermitsConserved
<1>4. pc[r] = "granted" => r \in H \ C
  BY DEF At, Holding, ConvertingStages, InPool, Resolved
<1> QED BY <1>1, <1>2, <1>3, <1>4 DEF TypeOK

LEMMA ConvertingSeen ==
  ASSUME TypeOK
  PROVE  Service!In("converting") = At(ConvertingStages)
<1>1. ASSUME NEW q \in Requests
      PROVE  StageSeen[q] = "converting" <=> pc[q] \in ConvertingStages
  BY StageCases DEF StageSeen, TypeOK, Stages, Settled, PendingStages, ConvertingStages,
                    InPool, Resolved
<1> QED BY <1>1 DEF Service!In, At
-----------------------------------------------------------------------------
LEMMA WakeMoves ==
  ASSUME TypeOK, QueueIsExact, NEW n \in 0..Len(waiters), NEW r \in Requests,
         pc[r] # "waiting", NEW stage, Wake(n, [pc EXCEPT ![r] = stage])
  PROVE  /\ pc'[r] = stage
         /\ \A q \in Requests \ {r} : \/ pc'[q] = pc[q]
                                      \/ pc[q] = "waiting" /\ pc'[q] = "granted"
<1>1. \A i \in 1..n : waiters[i] \in Requests /\ pc[waiters[i]] = "waiting"
  BY WaitersWait, LenProperties DEF TypeOK
<1> QED BY <1>1 DEF Wake, TypeOK

(* What clients see of a request r that moves: enough to name the service's *)
(* step.  The four lemmas below are the four ways the server moves one.     *)
SeenMove(r, from, to, answer) ==
  /\ StageSeen[r] = from
  /\ StageSeen' = [StageSeen EXCEPT ![r] = to]
  /\ ReplySeen' = [ReplySeen EXCEPT ![r] = answer]

LEMMA SeenMoves ==
  ASSUME TypeOK, TypeOK', NEW r \in Requests,
         \A q \in Requests \ {r} : /\ code'[q] = code[q]
                                   /\ \/ pc'[q] = pc[q]
                                      \/ pc[q] = "waiting" /\ pc'[q] = "granted"
  PROVE  SeenMove(r, StageOf(r), StageOf(r)',
                  IF pc'[r] \in {"refused", "answered"} THEN code'[r] ELSE 0)
BY OneRequestMoves DEF SeenMove, StageSeen

(* The same for a request that stays open. *)
LEMMA SeenMovesOpen ==
  ASSUME TypeOK, TypeOK', NEW r \in Requests, NEW from, NEW to,
         \A q \in Requests \ {r} : /\ code'[q] = code[q]
                                   /\ \/ pc'[q] = pc[q]
                                      \/ pc[q] = "waiting" /\ pc'[q] = "granted",
         StageOf(r) = from, StageOf(r)' = to, pc'[r] \notin {"refused", "answered"}
  PROVE  SeenMove(r, from, to, 0)
BY SeenMoves

LEMMA ReplyKept ==
  ASSUME NEW r \in Requests, pc[r] \notin {"refused", "answered"},
         NEW from, NEW to, SeenMove(r, from, to, 0)
  PROVE  UNCHANGED ReplySeen
BY DEF SeenMove, ReplySeen

LEMMA StutterSeen ==
  ASSUME NEW r \in Requests, pc[r] \notin {"refused", "answered"},
         NEW from, SeenMove(r, from, from, 0), UNCHANGED <<limit, totals>>
  PROVE  UNCHANGED Service!svars
BY ReplyKept DEF SeenMove, StageSeen, Service!svars

LEMMA ArriveSeen ==
  ASSUME TypeOK, TypeOK', NEW r \in Requests, Arrive(r)
  PROVE  Service!Take(r) \/ Service!Refuse(r)
<1>1. CASE Accept(r)
  <2>1. SeenMove(r, "new", "pending", 0)
    BY <1>1, SeenMoves, StageCases, StageCasesNext
       DEF Accept, Move, TypeOK, Settled, PendingStages
  <2>2. UNCHANGED ReplySeen
    BY <1>1, <2>1, ReplyKept DEF Accept
  <2> QED BY <1>1, <2>1, <2>2 DEF Accept, SeenMove, semVars, Service!Take, Service!Becomes
<1>2. ASSUME NEW c \in {400, 413}, Refuse(r, c) PROVE Service!Refuse(r)
  <2>1. SeenMove(r, "new", "refused", c)
    BY <1>2, SeenMoves, StageCases, StageCasesNext
       DEF Refuse, Move, Plan, TypeOK, Settled
  <2>2. UNCHANGED <<limit, totals>>
    BY <1>2 DEF Refuse, semVars, metricVars
  <2>3. /\ StageSeen[r] = "new" /\ StageSeen' = [StageSeen EXCEPT ![r] = "refused"]
        /\ ReplySeen' = [ReplySeen EXCEPT ![r] = c]
    BY <2>1 DEF SeenMove
  <2>4. \E d \in {400, 413} : ReplySeen' = [ReplySeen EXCEPT ![r] = d]
    BY <1>2, <2>3, ZenonT(30)
  <2> QED BY <2>2, <2>3, <2>4 DEF Service!Refuse, Service!Becomes
<1> QED BY <1>1, <1>2 DEF Arrive

LEMMA UploadSeen ==
  ASSUME TypeOK, TypeOK', PlannedCodes, NEW r \in Requests, Upload(r)
  PROVE  Service!Fail(r) \/ UNCHANGED Service!svars
<1> USE DEF Move, Plan, Conclude, Record, TypeOK, semVars, metricVars
<1>1. ASSUME NEW c \in {413, 500}, CreateTemp(r) \/ WriteTemp(r) \/ WriteTempFails(r, c)
      PROVE  UNCHANGED Service!svars
  <2>1. /\ pc[r] \in {"creating", "writing"} /\ pc'[r] \in {"writing", "mkdir", "discarding"}
        /\ \A q \in Requests \ {r} : pc'[q] = pc[q] /\ code'[q] = code[q]
        /\ UNCHANGED <<limit, totals>>
    <3>1. CASE CreateTemp(r) BY <3>1 DEF CreateTemp
    <3>2. CASE WriteTemp(r) BY <3>2 DEF WriteTemp
    <3>3. CASE WriteTempFails(r, c) BY <3>3 DEF WriteTempFails
    <3> QED BY <1>1, <3>1, <3>2, <3>3
  <2>2. StageOf(r) = "pending" /\ StageOf(r)' = "pending"
    BY <2>1, StageCases, StageCasesNext DEF PendingStages
  <2>3. SeenMove(r, "pending", "pending", 0)
    BY <2>1, <2>2, SeenMovesOpen
  <2> QED BY <2>1, <2>3, StutterSeen
<1>2. CASE CreateTempFails(r) \/ DiscardTemp(r) \/ DiscardTempFails(r)
  <2>1. /\ pc[r] \in {"creating", "discarding"} /\ pc'[r] = "answered"
        /\ code'[r] \in {413, 500}
        /\ \A q \in Requests \ {r} : pc'[q] = pc[q] /\ code'[q] = code[q]
        /\ totals' = [totals EXCEPT !["error"] = @ + 1] /\ UNCHANGED limit
    <3>1. CASE CreateTempFails(r) BY <3>1 DEF CreateTempFails
    <3>2. CASE DiscardTemp(r) BY <3>2 DEF DiscardTemp, PlannedCodes, At
    <3>3. CASE DiscardTempFails(r) BY <3>3 DEF DiscardTempFails
    <3> QED BY <1>2, <3>1, <3>2, <3>3
  <2>2. StageOf(r) = "pending" /\ StageOf(r)' = "answered"
    BY <2>1, StageCases, StageCasesNext DEF PendingStages, Settled
  <2>3. SeenMove(r, "pending", "answered", code'[r])
    <3> HIDE DEF TypeOK
    <3> QED BY <2>1, <2>2, SeenMoves
  <2>4. \E c \in {413, 500} : ReplySeen' = [ReplySeen EXCEPT ![r] = c]
    <3>1. code'[r] \in {413, 500} /\ ReplySeen' = [ReplySeen EXCEPT ![r] = code'[r]]
      BY <2>1, <2>3 DEF SeenMove
    <3> QED BY <3>1, ZenonT(30)
  <2>5. /\ StageSeen[r] = "pending" /\ StageSeen' = [StageSeen EXCEPT ![r] = "answered"]
    BY <2>3 DEF SeenMove
  <2> HIDE DEF TypeOK
  <2> QED BY <2>1, <2>4, <2>5 DEF Service!Fail, Service!Becomes
<1> QED BY <1>1, <1>2 DEF Upload
-----------------------------------------------------------------------------
(* A handler on its way to the unlink after a failure. *)
LEMMA FailSeen ==
  ASSUME NEW r \in Requests, NEW from \in {"pending", "converting", "converted"},
         SeenMove(r, from, "failed", 0), pc[r] \notin {"refused", "answered"},
         totals' = [totals EXCEPT !["error"] = @ + 1], UNCHANGED limit
  PROVE  Service!Fail(r)
<1>1. UNCHANGED ReplySeen
  BY ReplyKept
<1>2. /\ StageSeen[r] \in {"pending", "converting", "converted"}
      /\ StageSeen' = [StageSeen EXCEPT ![r] = "failed"]
  BY DEF SeenMove
<1> QED BY <1>1, <1>2 DEF Service!Fail, Service!Becomes

(* A submission, with the slots fixed by the first one. *)
LEMMA StartSeen ==
  ASSUME TypeOK, NEW r \in Requests, SeenMove(r, "pending", "converting", 0),
         pc[r] \notin {"refused", "answered"}, limit' \in 1..Larger(2, MaxWorkers),
         limit # 0 => limit' = limit, Cardinality(At(ConvertingStages)) < limit',
         UNCHANGED totals
  PROVE  Service!Start(r)
<1>1. UNCHANGED ReplySeen
  BY ReplyKept
<1>2. limit' \in IF limit = 0 THEN 1..Larger(2, MaxWorkers) ELSE {limit}
  OBVIOUS
<1>3. Service!Cardinality(Service!In("converting")) < limit'
  <2>1. Service!Cardinality(At(ConvertingStages)) = Cardinality(At(ConvertingStages))
    BY DEF Service!Cardinality, Cardinality
  <2> QED BY <2>1, ConvertingSeen
<1> QED BY <1>1, <1>2, <1>3 DEF SeenMove, Service!Start, Service!Becomes

LEMMA ScheduleSeen ==
  ASSUME TypeOK, TypeOK', SemaphoreInv, NEW r \in Requests, Schedule(r)
  PROVE  Service!Start(r) \/ Service!Fail(r) \/ UNCHANGED Service!svars
<1> USE DEF Move, Plan, Conclude, Record, TypeOK, semVars, metricVars
<1>1. CASE MakeOutputDirFails(r) \/ MakeOutputDirAndFail(r)
  <2>1. /\ pc[r] = "mkdir" /\ pc'[r] = "unlinking" /\ code'[r] = 500
        /\ \A q \in Requests \ {r} : pc'[q] = pc[q] /\ code'[q] = code[q]
        /\ totals' = [totals EXCEPT !["error"] = @ + 1] /\ UNCHANGED limit
    <3>1. CASE MakeOutputDirFails(r) BY <3>1 DEF MakeOutputDirFails
    <3>2. CASE MakeOutputDirAndFail(r) BY <3>2 DEF MakeOutputDirAndFail
    <3> QED BY <1>1, <3>1, <3>2
  <2>2. StageOf(r) = "pending" /\ StageOf(r)' = "failed"
    BY <2>1, StageCases, StageCasesNext DEF PendingStages
  <2>3. SeenMove(r, "pending", "failed", 0)
    <3> HIDE DEF TypeOK
    <3> QED BY <2>1, <2>2, SeenMovesOpen
  <2> QED BY <2>1, <2>3, FailSeen
<1>2. CASE MakeOutputDirAndQueue(r)
  <2>1. SeenMove(r, "pending", "pending", 0)
    BY <1>2, SeenMoves, StageCases, StageCasesNext DEF MakeOutputDirAndQueue, PendingStages
  <2> QED BY <1>2, <2>1, StutterSeen DEF MakeOutputDirAndQueue
<1>3. ASSUME NEW lim \in Limits, MakeOutputDirAndSubmit(r, lim)
      PROVE  Service!Start(r)
  <2>1. SeenMove(r, "pending", "converting", 0)
    BY <1>3, SeenMoves, StageCases, StageCasesNext
       DEF MakeOutputDirAndSubmit, PendingStages, ConvertingStages, InPool
  <2>2. Cardinality(At(ConvertingStages)) < lim /\ limit' = lim /\ (limit # 0 => lim = limit)
    <3>1. CASE limit = 0
      <4>1. Cardinality(At(Holding)) = 0
        <5>1. value + Cardinality(At(Holding)) = 0 /\ value \in Nat
          BY <3>1 DEF SemaphoreInv, PermitsConserved
        <5>2. Cardinality(At(Holding)) \in Nat
          BY AtHolding, HoldersFinite
        <5> HIDE DEF TypeOK
        <5> QED BY <5>1, <5>2
      <4>2. At(Holding) = {}
        BY <4>1, AtHolding, HoldersFinite, FS_EmptySet
      <4>3. At(ConvertingStages) = {}
        BY <4>2 DEF At, Holding, ConvertingStages
      <4> QED BY <1>3, <3>1, <4>3, FS_EmptySet DEF MakeOutputDirAndSubmit
    <3>2. CASE limit # 0
      <4>1. value > 0 /\ lim = limit
        BY <1>3, <3>2 DEF MakeOutputDirAndSubmit, Locked
      <4> QED BY <1>3, <4>1, RoomToStart DEF MakeOutputDirAndSubmit
    <3> QED BY <3>1, <3>2
  <2>3. pc[r] \notin {"refused", "answered"} /\ UNCHANGED totals
    BY <1>3 DEF MakeOutputDirAndSubmit
  <2>4. limit' \in 1..Larger(2, MaxWorkers)
    <3>1. lim \in 1..Larger(2, MaxWorkers)
      BY <1>3, LimitBounds DEF MakeOutputDirAndSubmit, SemaphoreInv, PermitsConserved
    <3> QED BY <2>2, <3>1
  <2> QED BY <1>3, <2>1, <2>2, <2>3, <2>4, StartSeen
<1>4. CASE ResumeAndSubmit(r)
  <2>1. Smaller(value, Len(waiters)) \in 0..Len(waiters)
    BY LenProperties DEF Smaller
  <2>2. /\ pc'[r] = "queued"
        /\ \A q \in Requests \ {r} : pc'[q] = pc[q] \/ (pc[q] = "waiting" /\ pc'[q] = "granted")
    BY <1>4, <2>1, WakeMoves DEF ResumeAndSubmit, SemaphoreInv
  <2>3. SeenMove(r, "pending", "converting", 0)
    BY <1>4, <2>2, SeenMoves, StageCases, StageCasesNext
       DEF ResumeAndSubmit, PendingStages, ConvertingStages, InPool
  <2>4. Cardinality(At(ConvertingStages)) \in Nat
    <3>1. At(ConvertingStages) \subseteq Requests
      BY DEF At
    <3> QED BY <3>1, RequestsFinite, FS_Subset, FS_CardinalityType
  <2>5. Cardinality(At(ConvertingStages)) < limit /\ limit' = limit
    BY <1>4, RoomToStart DEF ResumeAndSubmit
  <2>6. limit' \in 1..Larger(2, MaxWorkers)
    BY <2>4, <2>5, BoundsArePositive DEF SemaphoreInv, PermitsConserved, Larger
  <2>7. pc[r] \notin {"refused", "answered"} /\ UNCHANGED totals
    BY <1>4 DEF ResumeAndSubmit
  <2> QED BY <2>3, <2>5, <2>6, <2>7, StartSeen
<1>5. CASE ResumeAndFail(r)
  <2>1. Smaller(value + 1, Len(waiters)) \in 0..Len(waiters)
    BY LenProperties DEF Smaller
  <2>2. /\ pc'[r] = "unlinking"
        /\ \A q \in Requests \ {r} : pc'[q] = pc[q] \/ (pc[q] = "waiting" /\ pc'[q] = "granted")
    BY <1>5, <2>1, WakeMoves DEF ResumeAndFail, SemaphoreInv
  <2>3. /\ pc[r] = "granted" /\ code'[r] = 500
        /\ \A q \in Requests \ {r} : code'[q] = code[q]
        /\ totals' = [totals EXCEPT !["error"] = @ + 1] /\ UNCHANGED limit
    BY <1>5 DEF ResumeAndFail
  <2>4. StageOf(r) = "pending" /\ StageOf(r)' = "failed"
    BY <2>2, <2>3, StageCases, StageCasesNext DEF PendingStages
  <2>5. SeenMove(r, "pending", "failed", 0)
    <3> HIDE DEF TypeOK
    <3> QED BY <2>2, <2>3, <2>4, SeenMovesOpen
  <2> QED BY <2>3, <2>5, FailSeen
<1> QED BY <1>1, <1>2, <1>3, <1>4, <1>5 DEF Schedule

LEMMA WorkSeen ==
  ASSUME TypeOK, TypeOK', NEW r \in Requests, Work(r)
  PROVE  UNCHANGED Service!svars
<1>1. /\ pc[r] \in ConvertingStages /\ pc'[r] \in ConvertingStages
      /\ \A q \in Requests \ {r} : pc'[q] = pc[q]
      /\ UNCHANGED <<code, limit, totals>>
  BY DEF Work, WorkerTakes, WorkerConverts, WorkerPublishes, WorkerGivesUp, WorkerRaises,
         TypeOK, ConvertingStages, InPool, Resolved, Move, semVars, metricVars
<1>2. SeenMove(r, "converting", "converting", 0)
  BY <1>1, SeenMoves, StageCases, StageCasesNext DEF TypeOK, ConvertingStages, InPool, Resolved
<1> QED BY <1>1, <1>2, StutterSeen DEF ConvertingStages, InPool, Resolved
-----------------------------------------------------------------------------
LEMMA AnswerSeen ==
  ASSUME TypeOK, TypeOK', SemaphoreInv, PlannedCodes, NEW r \in Requests, Answer(r)
  PROVE  Service!Finish(r) \/ Service!Fail(r) \/ Service!Succeed(r) \/ Service!Reply(r)
<1> USE DEF Move, Plan, Conclude, Record, TypeOK, semVars, metricVars
<1>1. Smaller(1, Len(waiters)) \in 0..Len(waiters)
  BY LenProperties DEF Smaller
<1>2. ASSUME NEW stage \in {"checking", "unlinking"}, pc[r] \in Resolved, ReleaseTo(r, stage)
      PROVE  /\ pc'[r] = stage /\ UNCHANGED limit
             /\ \A q \in Requests \ {r} : pc'[q] = pc[q] \/ (pc[q] = "waiting" /\ pc'[q] = "granted")
  <2>1. pc[r] # "waiting"
    BY <1>2 DEF Resolved
  <2>2. PICK n \in 0..Len(waiters) : Wake(n, [pc EXCEPT ![r] = stage])
    BY <1>1, <1>2 DEF ReleaseTo
  <2>3. UNCHANGED limit
    BY <1>2 DEF ReleaseTo
  <2>4. QueueIsExact
    BY DEF SemaphoreInv
  <2> HIDE DEF TypeOK
  <2> QED BY <2>1, <2>2, <2>3, <2>4, WakeMoves
<1>3. CASE CollectPath(r)
  <2>1. pc[r] = "converted" /\ ReleaseTo(r, "checking") /\ UNCHANGED <<code, totals>>
    BY <1>3 DEF CollectPath
  <2>2. /\ pc'[r] = "checking" /\ UNCHANGED limit
        /\ \A q \in Requests \ {r} : pc'[q] = pc[q] \/ (pc[q] = "waiting" /\ pc'[q] = "granted")
    BY <1>2, <2>1 DEF Resolved
  <2>3. StageOf(r) = "converting" /\ StageOf(r)' = "converted"
    BY <2>1, <2>2, StageCases, StageCasesNext DEF ConvertingStages, Resolved
  <2>4. SeenMove(r, "converting", "converted", 0)
    BY <2>1, <2>2, <2>3, SeenMoves
  <2>5. UNCHANGED ReplySeen
    BY <2>1, <2>4, ReplyKept
  <2> QED BY <2>1, <2>2, <2>4, <2>5 DEF SeenMove, Service!Finish, Service!Becomes
<1>4. CASE CollectFailure(r)
  <2>1. /\ pc[r] \in {"unconverted", "raised"} /\ ReleaseTo(r, "unlinking")
        /\ code'[r] = 500 /\ \A q \in Requests \ {r} : code'[q] = code[q]
        /\ totals' = [totals EXCEPT !["error"] = @ + 1]
    BY <1>4 DEF CollectFailure
  <2>2. /\ pc'[r] = "unlinking" /\ UNCHANGED limit
        /\ \A q \in Requests \ {r} : pc'[q] = pc[q] \/ (pc[q] = "waiting" /\ pc'[q] = "granted")
    BY <1>2, <2>1 DEF Resolved
  <2>3. StageOf(r) = "converting" /\ StageOf(r)' = "failed"
    BY <2>1, <2>2, StageCases, StageCasesNext DEF ConvertingStages, Resolved
  <2>4. SeenMove(r, "converting", "failed", 0)
    BY <2>1, <2>2, <2>3, SeenMoves
  <2> QED BY <2>1, <2>2, <2>4, FailSeen
<1>5. CASE CheckOutput(r)
  <2>1. SeenMove(r, "converted", "succeeded", 0)
    BY <1>5, SeenMoves, StageCases, StageCasesNext DEF CheckOutput
  <2>2. UNCHANGED ReplySeen
    BY <1>5, <2>1, ReplyKept DEF CheckOutput
  <2> QED BY <1>5, <2>1, <2>2 DEF CheckOutput, SeenMove, Service!Succeed, Service!Becomes
<1>6. CASE CheckOutputFails(r)
  <2>1. SeenMove(r, "converted", "failed", 0)
    BY <1>6, SeenMoves, StageCases, StageCasesNext DEF CheckOutputFails
  <2> QED BY <1>6, <2>1, FailSeen DEF CheckOutputFails
<1>7. CASE Unlink(r) \/ UnlinkFails(r)
  <2>1. /\ code[r] \in {200, 500} /\ code'[r] \in {code[r], 500} /\ pc'[r] = "answered"
        /\ pc[r] = "unlinking" /\ UNCHANGED <<limit, totals>>
        /\ \A q \in Requests \ {r} : pc'[q] = pc[q] /\ code'[q] = code[q]
    <3>1. CASE Unlink(r) BY <3>1 DEF Unlink, PlannedCodes, At
    <3>2. CASE UnlinkFails(r) BY <3>2 DEF UnlinkFails, PlannedCodes, At
    <3> QED BY <1>7, <3>1, <3>2
  <2>2. /\ StageOf(r) = IF code[r] = 200 THEN "succeeded" ELSE "failed"
        /\ StageOf(r)' = "answered"
    BY <2>1, StageCases, StageCasesNext DEF Settled
  <2>3. SeenMove(r, StageOf(r), "answered", code'[r])
    BY <2>1, <2>2, SeenMoves
  <2>4. code'[r] \in {200, 500} /\ (code'[r] = 200 => StageOf(r) = "succeeded")
    BY <2>1, <2>2
  <2>5. \E c \in {200, 500} : /\ c = 200 => StageSeen[r] = "succeeded"
                              /\ ReplySeen' = [ReplySeen EXCEPT ![r] = c]
    <3>1. StageSeen[r] = StageOf(r) /\ ReplySeen' = [ReplySeen EXCEPT ![r] = code'[r]]
      BY <2>3 DEF SeenMove
    <3>2. code'[r] \in {200, 500}
      BY <2>4
    <3>3. code'[r] = 200 => StageSeen[r] = "succeeded"
      BY <2>4, <3>1
    <3> QED BY <3>1, <3>2, <3>3, ZenonT(30)
  <2>6. /\ StageSeen[r] \in {"succeeded", "failed"}
        /\ StageSeen' = [StageSeen EXCEPT ![r] = "answered"]
    BY <2>2, <2>3 DEF SeenMove
  <2> HIDE DEF TypeOK
  <2> QED BY <2>1, <2>5, <2>6 DEF Service!Reply, Service!Becomes
<1> QED BY <1>3, <1>4, <1>5, <1>6, <1>7 DEF Answer

LEMMA WorkerDiesSeen ==
  ASSUME TypeOK, TypeOK', WorkerDies
  PROVE  UNCHANGED Service!svars
<1>1. ASSUME NEW q \in Requests PROVE StageOf(q)' = StageOf(q)
  <2>1. CASE pc[q] \in InPool
    BY <2>1, StageCases, StageCasesNext DEF WorkerDies, TypeOK, ConvertingStages, InPool, Resolved
  <2>2. CASE pc[q] \notin InPool
    BY <2>2 DEF WorkerDies, StageOf
  <2> QED BY <2>1, <2>2
<1>2. UNCHANGED ReplySeen
  BY DEF WorkerDies, ReplySeen, TypeOK, InPool
<1> QED BY <1>1, <1>2 DEF WorkerDies, StageSeen, semVars, metricVars, Service!svars

LEMMA StopSeen ==
  ASSUME TypeOK, TypeOK', Shutdown \/ Kill
  PROVE  Service!Stop
<1>1. /\ Forget
      /\ \A q \in Requests : pc'[q] = IF pc[q] \in Settled THEN pc[q] ELSE "lost"
      /\ \A q \in Requests : pc[q] \in Settled => code'[q] = code[q]
  BY DEF Shutdown, Kill, InFlight, At, TypeOK
<1>2. ASSUME NEW q \in Requests
      PROVE  StageOf(q)' = IF StageOf(q) \in Service!Open THEN "lost" ELSE StageOf(q)
  BY <1>1, StageCases, StageCasesNext
     DEF TypeOK, Stages, Settled, PendingStages, ConvertingStages, InPool, Resolved, Service!Open
<1>3. UNCHANGED ReplySeen
  BY <1>1 DEF ReplySeen, Settled
<1> QED BY <1>1, <1>2, <1>3 DEF Forget, StageSeen, Service!Stop, Service!Nothing

(* Clients of the server see the service, for any number of requests and    *)
(* workers: answered once, a 200 only after a whole conversion, conversions *)
(* within the slots, every outcome counted once.                            *)
THEOREM ServerImplementsService == Spec => ImplementsService
<1> DEFINE Inv == TypeOK /\ SemaphoreInv /\ PlannedCodes
<1>1. Init => Inv /\ Service!Init
  <2> SUFFICES ASSUME Init PROVE Inv /\ Service!Init
    OBVIOUS
  <2>1. Inv
    BY TypeInit, SemaphoreInit, PlannedInit
  <2>2. \A q \in Requests : StageOf(q) = "new"
    BY StageCases DEF Init, Stages, Settled
  <2>3. StageSeen = [q \in Requests |-> "new"]
    BY <2>2 DEF StageSeen
  <2>4. ReplySeen = [q \in Requests |-> 0]
    BY DEF Init, ReplySeen
  <2> QED BY <2>1, <2>3, <2>4 DEF Init, Service!Init, Service!Nothing
<1>2. Inv /\ [Next]_vars => Inv'
  BY TypeStep, SemaphoreStep, PlannedStep DEF SemaphoreInv
<1>3. Inv /\ [Next]_vars => [Service!Next]_(Service!svars)
  <2> SUFFICES ASSUME Inv, [Next]_vars PROVE Service!Next \/ UNCHANGED Service!svars
    OBVIOUS
  <2>0. TypeOK'
    BY TypeStep
  <2>1. ASSUME NEW r \in Requests, Arrive(r) PROVE Service!Next
    BY <2>0, <2>1, ArriveSeen DEF Service!Next
  <2>2. ASSUME NEW r \in Requests, Progress(r) PROVE Service!Next \/ UNCHANGED Service!svars
    BY <2>0, <2>2, UploadSeen, ScheduleSeen, WorkSeen, AnswerSeen DEF Progress, Service!Next
  <2>3. CASE Shutdown \/ Kill
    BY <2>0, <2>3, StopSeen DEF Service!Next
  <2>4. CASE MemoryChanges \/ Restart \/ UNCHANGED vars
    <3>1. UNCHANGED <<pc, code, limit, totals>>
      BY <2>4 DEF MemoryChanges, Restart, vars, semVars, metricVars
    <3>2. UNCHANGED StageSeen
      BY <3>1 DEF StageSeen, StageOf
    <3>3. UNCHANGED ReplySeen
      BY <3>1 DEF ReplySeen
    <3> QED BY <3>1, <3>2, <3>3 DEF Service!svars
  <2> QED BY <2>0, <2>1, <2>2, <2>3, <2>4, WorkerDiesSeen DEF Next, Stopped
<1> QED BY <1>1, <1>2, <1>3, PTL DEF Spec, ImplementsService, Service!Spec

-----------------------------------------------------------------------------
(* The metrics.  A request is in the gauge from its admission to its        *)
(* conclusion, and in one of the totals after; a planned 200 is a success   *)
(* counted; and only an unlink that raises takes a 200 back.                *)
OpenStages == Stages \ (Settled \cup {"unlinking"})
Open == At(OpenStages)
Succeeded == {r \in admitted : code[r] = 200}
Excused == Succeeded \cup (admitted \cap undeletable)

CountedRequest(r) ==
  /\ pc[r] \notin Settled => r \in admitted
  /\ r \in admitted => pc[r] \notin Settled \/ pc[r] = "answered"
  /\ r \in undeletable => pc[r] = "answered"
  /\ pc[r] \in OpenStages \cup {"new"} => code[r] # 200

CountsAgree ==
  /\ active = Cardinality(Open)
  /\ active + totals.success + totals.error = Cardinality(admitted)
  /\ Cardinality(Succeeded) <= totals.success
  /\ totals.success <= Cardinality(Excused)

MetricsInv == CountsAgree /\ \A r \in Requests : CountedRequest(r)

(* In a step of request r the others at most come out of the queue.          *)
Alone(r) ==
  \A q \in Requests \ {r} : /\ code'[q] = code[q]
                            /\ \/ pc'[q] = pc[q]
                               \/ pc[q] = "waiting" /\ pc'[q] = "granted"

LEMMA CountedSets ==
  ASSUME TypeOK
  PROVE  \A S \in {Open, Succeeded, Excused, admitted} :
           S \subseteq Requests /\ IsFiniteSet(S) /\ Cardinality(S) \in Nat
<1>1. \A S \in {Open, Succeeded, Excused, admitted} : S \subseteq Requests
  BY DEF Open, At, Succeeded, Excused, TypeOK
<1> HIDE DEF Open, Succeeded, Excused
<1> QED BY <1>1, RequestsFinite, FS_Subset, FS_CardinalityType

LEMMA SubsetCounts ==
  ASSUME NEW T, IsFiniteSet(T), NEW S, S \subseteq T
  PROVE  Cardinality(S) <= Cardinality(T)
BY FS_Subset

LEMMA OthersStayCounted ==
  ASSUME TypeOK, MetricsInv, NEW r \in Requests, Alone(r),
         admitted' \ {r} = admitted \ {r}, undeletable' \ {r} = undeletable \ {r},
         CountedRequest(r)'
  PROVE  \A q \in Requests : CountedRequest(q)'
<1> SUFFICES ASSUME NEW q \in Requests \ {r} PROVE CountedRequest(q)'
  OBVIOUS
<1>1. CountedRequest(q) /\ code'[q] = code[q]
  BY DEF MetricsInv, Alone
<1>2. (q \in admitted' <=> q \in admitted) /\ (q \in undeletable' <=> q \in undeletable)
  OBVIOUS
<1>3. CASE pc'[q] = pc[q]
  BY <1>1, <1>2, <1>3 DEF CountedRequest
<1>4. CASE pc[q] = "waiting" /\ pc'[q] = "granted"
  BY <1>1, <1>2, <1>4 DEF CountedRequest, OpenStages, Stages, Settled
<1> QED BY <1>3, <1>4 DEF Alone

LEMMA OpenChanges ==
  ASSUME TypeOK, NEW r \in Requests, Alone(r)
  PROVE  Open' = IF pc'[r] \in OpenStages THEN Open \cup {r} ELSE Open \ {r}
<1>1. \A q \in Requests \ {r} : pc'[q] \in OpenStages <=> pc[q] \in OpenStages
  BY DEF Alone, OpenStages, Stages, Settled
<1> QED BY <1>1 DEF Open, At

LEMMA SucceededChanges ==
  ASSUME TypeOK, NEW r \in Requests, Alone(r), admitted' \ {r} = admitted \ {r}
  PROVE  Succeeded' = IF r \in admitted' /\ code'[r] = 200 THEN Succeeded \cup {r} ELSE Succeeded \ {r}
<1>1. \A q \in Requests \ {r} : code'[q] = code[q]
  BY DEF Alone
<1>2. admitted \subseteq Requests /\ \A q : q # r => (q \in admitted' <=> q \in admitted)
  BY DEF TypeOK
<1> QED BY <1>1, <1>2 DEF Succeeded

(* r stays open, or becomes settled after it was counted, or is refused.      *)
LEMMA StaysCounted ==
  ASSUME TypeOK, TypeOK', MetricsInv, NEW r \in Requests, Alone(r), CountedRequest(r)',
         pc[r] \in OpenStages <=> pc'[r] \in OpenStages,
         \/ code'[r] = code[r]
         \/ code[r] # 200 /\ code'[r] # 200
         \/ code'[r] # 200 /\ r \in undeletable',
         undeletable' \in {undeletable, undeletable \cup {r}},
         UNCHANGED <<active, totals, admitted>>
  PROVE  MetricsInv'
<1>1. Open' = Open
  BY OpenChanges DEF Open, At
<1>2. Succeeded' = IF r \in admitted /\ code'[r] = 200 THEN Succeeded \cup {r} ELSE Succeeded \ {r}
  BY SucceededChanges
<1>3. Succeeded' \subseteq Succeeded
  BY <1>2 DEF Succeeded
<1>4. Excused \subseteq Excused'
  BY <1>2 DEF Succeeded, Excused
<1>5. Cardinality(Succeeded') <= Cardinality(Succeeded) /\ Cardinality(Excused) <= Cardinality(Excused')
  <2>1. IsFiniteSet(Succeeded) /\ IsFiniteSet(Excused')
    <3>1. Excused' \subseteq Requests
      BY DEF Excused, Succeeded, TypeOK
    <3> HIDE DEF Excused
    <3> QED BY <3>1, CountedSets, RequestsFinite, FS_Subset
  <2> HIDE DEF Excused, Succeeded
  <2> QED BY <1>3, <1>4, <2>1, SubsetCounts
<1>6. CountsAgree'
  <2>1. /\ Cardinality(Succeeded) \in Nat /\ Cardinality(Succeeded') \in Nat
        /\ Cardinality(Excused) \in Nat /\ Cardinality(Excused') \in Nat
        /\ totals.success \in Nat
    <3>1. Excused' \subseteq Requests /\ Succeeded' \subseteq Requests
      BY DEF Excused, Succeeded, TypeOK
    <3>2. IsFiniteSet(Excused') /\ IsFiniteSet(Succeeded')
      BY <3>1, RequestsFinite, FS_Subset
    <3>3. totals.success \in Nat
      BY DEF TypeOK
    <3> HIDE DEF Excused, Succeeded
    <3> QED BY <3>2, <3>3, CountedSets, FS_CardinalityType
  <2> HIDE DEF Open, Excused, Succeeded
  <2> QED BY <1>1, <1>5, <2>1 DEF MetricsInv, CountsAgree
<1>7. \A q \in Requests : CountedRequest(q)'
  <2>1. admitted' \ {r} = admitted \ {r} /\ undeletable' \ {r} = undeletable \ {r}
    OBVIOUS
  <2> QED BY <2>1, OthersStayCounted
<1> QED BY <1>6, <1>7 DEF MetricsInv

(* r is counted in a total: a success with the 200 that is planned for it.     *)
LEMMA ConcludeCounts ==
  ASSUME TypeOK, TypeOK', MetricsInv, NEW r \in Requests, Alone(r),
         NEW status \in {"success", "error"}, Conclude(status),
         pc[r] \in OpenStages, pc'[r] \in {"unlinking", "answered"},
         code'[r] = 200 <=> status = "success",
         undeletable' \in {undeletable, undeletable \cup {r}},
         r \in undeletable' => pc'[r] = "answered" /\ status = "error",
         admitted' = admitted
  PROVE  MetricsInv'
<1>0. /\ r \in admitted /\ r \notin undeletable /\ code[r] # 200 /\ r \in Open
      /\ active \in Nat /\ totals.success \in Nat /\ totals.error \in Nat
  BY DEF MetricsInv, CountedRequest, OpenStages, Settled, Open, At, TypeOK
<1>1. Open' = Open \ {r}
  BY OpenChanges DEF OpenStages, Settled
<1>2. Succeeded' = IF status = "success" THEN Succeeded \cup {r} ELSE Succeeded \ {r}
  BY <1>0, SucceededChanges
<1>3. r \notin Succeeded /\ r \notin Excused
  BY <1>0 DEF Succeeded, Excused
<1>4. Excused' = Excused \cup {r} \/ (status = "error" /\ Excused' = Excused)
  BY <1>0, <1>2, <1>3 DEF Excused
<1>5. /\ active' = Larger(0, active - 1)
      /\ totals'.success = totals.success + (IF status = "success" THEN 1 ELSE 0)
      /\ totals'.error = totals.error + (IF status = "error" THEN 1 ELSE 0)
  BY <1>0 DEF Conclude, Record, TypeOK
<1> HIDE DEF Open, Succeeded, Excused
<1>6. /\ Cardinality(Open') = Cardinality(Open) - 1 /\ Cardinality(Open) > 0
  <2>1. IsFiniteSet(Open) /\ Cardinality(Open) \in Nat
    BY CountedSets
  <2>2. Cardinality(Open \ {r}) = Cardinality(Open) - 1 /\ Cardinality(Open \ {r}) \in Nat
    BY <1>0, <2>1, FS_RemoveElement, FS_CardinalityType
  <2> QED BY <1>1, <2>1, <2>2
<1>7. Cardinality(Succeeded') = Cardinality(Succeeded) + (IF status = "success" THEN 1 ELSE 0)
  <2>1. IsFiniteSet(Succeeded) /\ Cardinality(Succeeded) \in Nat
    BY CountedSets
  <2>2. Cardinality(Succeeded \cup {r}) = Cardinality(Succeeded) + 1
    BY <1>3, <2>1, FS_AddElement
  <2>3. Succeeded \ {r} = Succeeded
    BY <1>3
  <2> QED BY <1>2, <2>1, <2>2, <2>3
<1>8. Cardinality(Excused') = Cardinality(Excused) + 1
      \/ (status = "error" /\ Cardinality(Excused') = Cardinality(Excused))
  <2>1. IsFiniteSet(Excused)
    BY CountedSets
  <2>2. Cardinality(Excused \cup {r}) = Cardinality(Excused) + 1
    BY <1>3, <2>1, FS_AddElement
  <2> QED BY <1>4, <2>2
<1>9. CountsAgree'
  <2>1. /\ Cardinality(Open) \in Nat /\ Cardinality(Succeeded) \in Nat
        /\ Cardinality(Excused) \in Nat /\ Cardinality(admitted) \in Nat
    BY CountedSets
  <2>2. CountsAgree
    BY DEF MetricsInv
  <2> QED BY <1>0, <1>5, <1>6, <1>7, <1>8, <2>1, <2>2 DEF CountsAgree, Larger
<1>10. CountedRequest(r)'
  BY <1>0 DEF CountedRequest, OpenStages, Settled
<1>11. \A q \in Requests : CountedRequest(q)'
  <2>1. admitted' \ {r} = admitted \ {r} /\ undeletable' \ {r} = undeletable \ {r}
    OBVIOUS
  <2> QED BY <1>10, <2>1, OthersStayCounted
<1> QED BY <1>9, <1>11 DEF MetricsInv

LEMMA AcceptCounts ==
  ASSUME TypeOK, TypeOK', MetricsInv, NEW r \in Requests, Accept(r)
  PROVE  MetricsInv'
<1>0. /\ r \notin admitted /\ r \notin undeletable /\ code[r] # 200 /\ r \notin Open
      /\ Alone(r) /\ pc'[r] = "creating" /\ code' = code
      /\ active' = active + 1 /\ admitted' = admitted \cup {r}
      /\ UNCHANGED <<totals, undeletable>>
  BY DEF Accept, Move, MetricsInv, CountedRequest, OpenStages, Settled, Open, At, TypeOK, Alone,
         fileVars
<1>1. Open' = Open \cup {r}
  BY <1>0, OpenChanges DEF OpenStages, Stages, Settled
<1>2. Succeeded' = Succeeded
  BY <1>0 DEF Succeeded
<1>3. Excused' = Excused
  BY <1>0, <1>2 DEF Excused
<1> HIDE DEF Open, Succeeded, Excused
<1>4. Cardinality(Open') = Cardinality(Open) + 1
  BY <1>0, <1>1, CountedSets, FS_AddElement
<1>5. Cardinality(admitted') = Cardinality(admitted) + 1
  BY <1>0, CountedSets, FS_AddElement
<1>6. CountsAgree'
  <2>1. Cardinality(Open) \in Nat /\ Cardinality(admitted) \in Nat
    BY CountedSets
  <2>2. totals.success \in Nat /\ totals.error \in Nat /\ CountsAgree
    BY DEF TypeOK, MetricsInv
  <2> QED BY <1>0, <1>2, <1>3, <1>4, <1>5, <2>1, <2>2 DEF CountsAgree
<1>7. CountedRequest(r)'
  BY <1>0 DEF CountedRequest, Settled
<1>8. \A q \in Requests : CountedRequest(q)'
  <2>1. admitted' \ {r} = admitted \ {r} /\ undeletable' \ {r} = undeletable \ {r}
    BY <1>0
  <2> QED BY <1>0, <1>7, <2>1, OthersStayCounted
<1> QED BY <1>6, <1>8 DEF MetricsInv

(* A step of r that only moves it and plans its status. *)
LEMMA MoveAlone ==
  ASSUME TypeOK, NEW r \in Requests, NEW stage, Move(r, stage),
         code' = code \/ \E c : Plan(r, c)
  PROVE  Alone(r) /\ pc'[r] = stage
BY DEF Move, Plan, Alone, TypeOK

LEMMA WakeAlone ==
  ASSUME TypeOK, QueueIsExact, NEW n \in 0..Len(waiters), NEW r \in Requests,
         pc[r] # "waiting", NEW stage, Wake(n, [pc EXCEPT ![r] = stage]),
         code' = code \/ \E c : Plan(r, c)
  PROVE  Alone(r) /\ pc'[r] = stage
<1>1. \A q \in Requests \ {r} : code'[q] = code[q]
  BY DEF Plan, TypeOK
<1>2. /\ pc'[r] = stage
      /\ \A q \in Requests \ {r} : \/ pc'[q] = pc[q]
                                   \/ pc[q] = "waiting" /\ pc'[q] = "granted"
  BY WakeMoves
<1> QED BY <1>1, <1>2 DEF Alone

LEMMA PlannedCode ==
  ASSUME TypeOK, NEW r \in Requests, NEW c, Plan(r, c)
  PROVE  code'[r] = c
BY DEF Plan, TypeOK

(* r moves between stages in which it is in the gauge. *)
LEMMA StaysOpen ==
  ASSUME TypeOK, TypeOK', MetricsInv, NEW r \in Requests, Alone(r),
         pc[r] \in OpenStages, pc'[r] \in OpenStages, code'[r] # 200,
         UNCHANGED <<undeletable, metricVars, admitted>>
  PROVE  MetricsInv'
<1>1. CountedRequest(r) /\ UNCHANGED <<active, totals>>
  BY DEF MetricsInv, metricVars
<1>2. CountedRequest(r)' /\ code[r] # 200
  BY <1>1 DEF CountedRequest, OpenStages, Settled
<1> QED BY <1>1, <1>2, StaysCounted

LEMMA UploadCounts ==
  ASSUME TypeOK, TypeOK', MetricsInv, NEW r \in Requests, Upload(r)
  PROVE  MetricsInv'
<1>0. pc[r] \in OpenStages => code[r] # 200
  BY DEF MetricsInv, CountedRequest
<1>1. CASE CreateTemp(r) \/ WriteTemp(r)
  <2>1. /\ code' = code /\ UNCHANGED <<undeletable, metricVars, admitted>>
        /\ \E stage \in OpenStages : Move(r, stage)
        /\ pc[r] \in OpenStages
    BY <1>1 DEF CreateTemp, WriteTemp, OpenStages, Stages, Settled, fileVars
  <2> QED BY <1>0, <2>1, MoveAlone, StaysOpen
<1>2. ASSUME NEW c \in {413, 500}, WriteTempFails(r, c) PROVE MetricsInv'
  <2>1. /\ UNCHANGED <<undeletable, metricVars, admitted>> /\ Plan(r, c)
        /\ Move(r, "discarding") /\ "discarding" \in OpenStages /\ pc[r] \in OpenStages
    BY <1>2 DEF WriteTempFails, OpenStages, Stages, Settled, fileVars
  <2> QED BY <2>1, MoveAlone, PlannedCode, StaysOpen
<1>3. CASE CreateTempFails(r) \/ DiscardTemp(r) \/ DiscardTempFails(r)
  <2>1. /\ Conclude("error") /\ Move(r, "answered") /\ admitted' = admitted
        /\ pc[r] \in OpenStages
        /\ undeletable' \in {undeletable, undeletable \cup {r}}
        /\ code' = code \/ Plan(r, 500)
    BY <1>3 DEF CreateTempFails, DiscardTemp, DiscardTempFails, OpenStages, Stages, Settled,
                fileVars
  <2>2. code'[r] # 200 /\ Alone(r) /\ pc'[r] = "answered"
    BY <1>0, <2>1, MoveAlone, PlannedCode
  <2> QED BY <2>1, <2>2, ConcludeCounts
<1> QED BY <1>1, <1>2, <1>3 DEF Upload

LEMMA ScheduleCounts ==
  ASSUME TypeOK, TypeOK', QueueIsExact, MetricsInv, NEW r \in Requests, Schedule(r)
  PROVE  MetricsInv'
<1>0. /\ pc[r] \in OpenStages => code[r] # 200
      /\ {"mkdir", "granted", "waiting", "queued"} \subseteq OpenStages
  BY DEF MetricsInv, CountedRequest, OpenStages, Stages, Settled
<1>1. CASE MakeOutputDirFails(r) \/ MakeOutputDirAndFail(r)
  <2>1. /\ Conclude("error") /\ Move(r, "unlinking") /\ Plan(r, 500) /\ pc[r] = "mkdir"
        /\ admitted' = admitted /\ undeletable' = undeletable
    BY <1>1 DEF MakeOutputDirFails, MakeOutputDirAndFail, fileVars
  <2>2. r \notin undeletable
    BY <2>1 DEF MetricsInv, CountedRequest
  <2>3. Alone(r) /\ pc'[r] = "unlinking" /\ code'[r] = 500
    BY <2>1, MoveAlone, PlannedCode
  <2> QED BY <1>0, <2>1, <2>2, <2>3, ConcludeCounts
<1>2. CASE MakeOutputDirAndQueue(r)
        \/ \E lim \in Limits : MakeOutputDirAndSubmit(r, lim)
  <2>1. /\ code' = code /\ UNCHANGED <<undeletable, metricVars, admitted>>
        /\ \E stage \in OpenStages : Move(r, stage)
        /\ pc[r] = "mkdir"
    BY <1>0, <1>2 DEF MakeOutputDirAndQueue, MakeOutputDirAndSubmit
  <2> QED BY <1>0, <2>1, MoveAlone, StaysOpen
<1>3. CASE ResumeAndSubmit(r)
  <2> DEFINE n == Smaller(value, Len(waiters))
  <2>1. n \in 0..Len(waiters)
    BY LenProperties DEF TypeOK, Smaller
  <2>2. /\ Wake(n, [pc EXCEPT ![r] = "queued"]) /\ pc[r] = "granted" /\ code' = code
        /\ UNCHANGED <<undeletable, metricVars, admitted>>
    BY <1>3 DEF ResumeAndSubmit, fileVars
  <2> HIDE DEF n
  <2>3. Alone(r) /\ pc'[r] = "queued"
    BY <2>1, <2>2, WakeAlone
  <2> QED BY <1>0, <2>2, <2>3, StaysOpen
<1>4. CASE ResumeAndFail(r)
  <2> DEFINE n == Smaller(value + 1, Len(waiters))
  <2>1. n \in 0..Len(waiters)
    BY LenProperties DEF TypeOK, Smaller
  <2>2. /\ Wake(n, [pc EXCEPT ![r] = "unlinking"]) /\ pc[r] = "granted" /\ Plan(r, 500)
        /\ Conclude("error") /\ admitted' = admitted /\ undeletable' = undeletable
    BY <1>4 DEF ResumeAndFail, fileVars
  <2> HIDE DEF n
  <2>3. Alone(r) /\ pc'[r] = "unlinking" /\ code'[r] = 500
    <3>1. /\ Wake(n, [pc EXCEPT ![r] = "unlinking"]) /\ pc[r] # "waiting"
          /\ \E c : Plan(r, c)
      BY <2>2
    <3>2. Alone(r) /\ pc'[r] = "unlinking"
      BY <2>1, <3>1, WakeAlone
    <3> QED BY <2>2, <3>2, PlannedCode
  <2>4. r \notin undeletable
    BY <2>2 DEF MetricsInv, CountedRequest
  <2> QED BY <1>0, <2>2, <2>3, <2>4, ConcludeCounts
<1> QED BY <1>1, <1>2, <1>3, <1>4 DEF Schedule

LEMMA WorkCounts ==
  ASSUME TypeOK, TypeOK', MetricsInv, NEW r \in Requests, Work(r)
  PROVE  MetricsInv'
<1>1. /\ code' = code /\ UNCHANGED <<undeletable, metricVars, admitted>>
      /\ \E stage \in OpenStages : Move(r, stage)
      /\ pc[r] \in OpenStages
  BY DEF Work, WorkerTakes, WorkerConverts, WorkerPublishes, WorkerGivesUp, WorkerRaises,
         OpenStages, Stages, Settled, fileVars
<1>2. code[r] # 200
  BY <1>1 DEF MetricsInv, CountedRequest
<1> QED BY <1>1, <1>2, MoveAlone, StaysOpen

LEMMA AnswerCounts ==
  ASSUME TypeOK, TypeOK', QueueIsExact, MetricsInv, NEW r \in Requests, Answer(r)
  PROVE  MetricsInv'
<1>0. /\ pc[r] \in OpenStages => code[r] # 200 /\ r \notin undeletable
      /\ {"converted", "unconverted", "raised", "checking"} \subseteq OpenStages
      /\ Smaller(1, Len(waiters)) \in 0..Len(waiters)
  BY LenProperties
     DEF TypeOK, Smaller, MetricsInv, CountedRequest, OpenStages, Stages, Settled
<1>1. CASE CollectPath(r)
  <2>1. /\ Wake(Smaller(1, Len(waiters)), [pc EXCEPT ![r] = "checking"])
        /\ pc[r] = "converted" /\ code' = code
        /\ UNCHANGED <<undeletable, metricVars, admitted>>
    BY <1>1 DEF CollectPath, ReleaseTo, fileVars
  <2>2. Alone(r) /\ pc'[r] = "checking"
    <3> DEFINE n == Smaller(1, Len(waiters))
    <3>1. n \in 0..Len(waiters) /\ Wake(n, [pc EXCEPT ![r] = "checking"])
      BY <1>0, <2>1
    <3> HIDE DEF n
    <3> QED BY <2>1, <3>1, WakeAlone
  <2> QED BY <1>0, <2>1, <2>2, StaysOpen
<1>2. CASE CollectFailure(r)
  <2>1. /\ Wake(Smaller(1, Len(waiters)), [pc EXCEPT ![r] = "unlinking"])
        /\ pc[r] \in {"unconverted", "raised"} /\ Plan(r, 500) /\ Conclude("error")
        /\ admitted' = admitted /\ undeletable' = undeletable
    BY <1>2 DEF CollectFailure, ReleaseTo, fileVars
  <2>2. Alone(r) /\ pc'[r] = "unlinking" /\ code'[r] = 500
    <3> DEFINE n == Smaller(1, Len(waiters))
    <3>1. /\ n \in 0..Len(waiters) /\ Wake(n, [pc EXCEPT ![r] = "unlinking"])
          /\ pc[r] # "waiting" /\ \E c : Plan(r, c)
      BY <1>0, <2>1
    <3> HIDE DEF n
    <3>2. Alone(r) /\ pc'[r] = "unlinking"
      BY <3>1, WakeAlone
    <3> QED BY <2>1, <3>2, PlannedCode
  <2> QED BY <1>0, <2>1, <2>2, ConcludeCounts
<1>3. CASE CheckOutput(r) \/ CheckOutputFails(r)
  <2>1. /\ Move(r, "unlinking") /\ pc[r] = "checking"
        /\ admitted' = admitted /\ undeletable' = undeletable
        /\ \/ Conclude("success") /\ Plan(r, 200)
           \/ Conclude("error") /\ Plan(r, 500)
    BY <1>3 DEF CheckOutput, CheckOutputFails, fileVars
  <2>2. Alone(r) /\ pc'[r] = "unlinking"
    BY <2>1, MoveAlone
  <2>3. CASE Conclude("success") /\ Plan(r, 200)
    <3>1. code'[r] = 200
      BY <2>3, PlannedCode
    <3> QED BY <1>0, <2>1, <2>2, <2>3, <3>1, ConcludeCounts
  <2>4. CASE Conclude("error") /\ Plan(r, 500)
    <3>1. code'[r] = 500
      BY <2>4, PlannedCode
    <3> QED BY <1>0, <2>1, <2>2, <2>4, <3>1, ConcludeCounts
  <2> QED BY <2>1, <2>3, <2>4
<1>4. CASE Unlink(r) \/ UnlinkFails(r)
  <2>1. /\ Move(r, "answered") /\ pc[r] = "unlinking" /\ UNCHANGED <<active, totals, admitted>>
        /\ \/ code' = code /\ undeletable' = undeletable
           \/ Plan(r, 500) /\ undeletable' = undeletable \cup {r}
    BY <1>4 DEF Unlink, UnlinkFails, metricVars
  <2>2. Alone(r) /\ pc'[r] = "answered"
    BY <2>1, MoveAlone
  <2>3. /\ pc[r] \in OpenStages <=> pc'[r] \in OpenStages
        /\ undeletable' \in {undeletable, undeletable \cup {r}}
    BY <2>1, <2>2 DEF OpenStages, Settled
  <2>4. CountedRequest(r)'
    BY <2>1, <2>2 DEF MetricsInv, CountedRequest, OpenStages, Settled
  <2>5. \/ code'[r] = code[r]
        \/ code'[r] # 200 /\ r \in undeletable'
    BY <2>1, PlannedCode
  <2> QED BY <2>1, <2>2, <2>3, <2>4, <2>5, StaysCounted
<1> QED BY <1>1, <1>2, <1>3, <1>4 DEF Answer

LEMMA RefuseCounts ==
  ASSUME TypeOK, TypeOK', MetricsInv, NEW r \in Requests, NEW c \in {400, 413}, Refuse(r, c)
  PROVE  MetricsInv'
<1>1. /\ Move(r, "refused") /\ pc[r] = "new" /\ Plan(r, c)
      /\ UNCHANGED <<undeletable, active, totals, admitted>>
  BY DEF Refuse, fileVars, metricVars
<1>2. Alone(r) /\ pc'[r] = "refused" /\ code'[r] = c
  BY <1>1, MoveAlone, PlannedCode
<1>3. CountedRequest(r)' /\ code[r] # 200 /\ (pc[r] \in OpenStages <=> pc'[r] \in OpenStages)
  BY <1>1, <1>2 DEF MetricsInv, CountedRequest, OpenStages, Settled
<1> QED BY <1>1, <1>2, <1>3, StaysCounted

(* A broken pool moves many, but counts none. *)
LEMMA WorkerDiesCounts ==
  ASSUME TypeOK, TypeOK', MetricsInv, WorkerDies
  PROVE  MetricsInv'
<1>1. /\ UNCHANGED <<code, undeletable, active, totals, admitted>>
      /\ \A q \in Requests : pc'[q] = pc[q] \/ (pc[q] \in InPool /\ pc'[q] = "raised")
  BY DEF WorkerDies, fileVars, metricVars, TypeOK
<1>2. \A q \in Requests : CountedRequest(q)'
  BY <1>1 DEF MetricsInv, CountedRequest, InPool, OpenStages, Stages, Settled
<1>3. Open' = Open /\ Succeeded' = Succeeded /\ Excused' = Excused
  BY <1>1 DEF Open, At, Succeeded, Excused, InPool, OpenStages, Stages, Settled
<1> HIDE DEF Open, Succeeded, Excused
<1>4. CountsAgree'
  BY <1>1, <1>3 DEF MetricsInv, CountsAgree
<1> QED BY <1>2, <1>4 DEF MetricsInv

LEMMA ForgetCounts ==
  ASSUME TypeOK, TypeOK', MetricsInv, Shutdown \/ Kill
  PROVE  MetricsInv'
<1>1. /\ active' = 0 /\ totals' = [success |-> 0, error |-> 0] /\ admitted' = {}
      /\ undeletable' = undeletable
      /\ \A q \in Requests : \/ pc[q] \in Settled /\ pc'[q] = pc[q] /\ code'[q] = code[q]
                             \/ pc[q] \notin Settled /\ pc'[q] = "lost" /\ code'[q] = 0
  BY DEF Shutdown, Kill, Forget, InFlight, At, TypeOK, fileVars
<1>2. \A q \in Requests : CountedRequest(q)'
  BY <1>1 DEF MetricsInv, CountedRequest, OpenStages, Settled
<1>3. Open' = {} /\ Succeeded' = {} /\ Excused' = {}
  BY <1>1 DEF Open, At, Succeeded, Excused, OpenStages, Settled
<1> HIDE DEF Open, Succeeded, Excused
<1>4. CountsAgree'
  BY <1>1, <1>3, FS_EmptySet DEF CountsAgree
<1> QED BY <1>2, <1>4 DEF MetricsInv

LEMMA MetricsStep ==
  ASSUME TypeOK, QueueIsExact, MetricsInv, [Next]_vars
  PROVE  MetricsInv'
<1>0. TypeOK'
  BY TypeStep
<1>1. ASSUME NEW r \in Requests, Arrive(r) PROVE MetricsInv'
  BY <1>0, <1>1, AcceptCounts, RefuseCounts DEF Arrive
<1>2. ASSUME NEW r \in Requests, Progress(r) PROVE MetricsInv'
  BY <1>0, <1>2, UploadCounts, ScheduleCounts, WorkCounts, AnswerCounts DEF Progress
<1>3. CASE WorkerDies \/ Shutdown \/ Kill
  BY <1>0, <1>3, WorkerDiesCounts, ForgetCounts
<1>4. CASE MemoryChanges \/ Restart \/ UNCHANGED vars
  <2>1. UNCHANGED <<pc, code, undeletable, active, totals, admitted>>
    BY <1>4 DEF MemoryChanges, Restart, vars, fileVars, metricVars
  <2>2. Open' = Open /\ Succeeded' = Succeeded /\ Excused' = Excused
    BY <2>1 DEF Open, At, Succeeded, Excused
  <2>3. \A q \in Requests : CountedRequest(q)'
    BY <2>1 DEF MetricsInv, CountedRequest
  <2> HIDE DEF Open, Succeeded, Excused
  <2>4. CountsAgree'
    BY <2>1, <2>2 DEF MetricsInv, CountsAgree
  <2> QED BY <2>3, <2>4 DEF MetricsInv
<1> QED BY <1>1, <1>2, <1>3, <1>4 DEF Next, Stopped

LEMMA MetricsInit == Init => MetricsInv
<1> SUFFICES ASSUME Init PROVE MetricsInv
  OBVIOUS
<1>1. Open = {} /\ Succeeded = {} /\ Excused = {}
  BY DEF Init, Open, At, OpenStages, Settled, Succeeded, Excused
<1>2. \A r \in Requests : CountedRequest(r)
  BY DEF Init, CountedRequest, Settled
<1> HIDE DEF Open, Succeeded, Excused
<1> QED BY <1>1, <1>2, FS_EmptySet DEF Init, MetricsInv, CountsAgree

(* The registry agrees with the requests in every state, whatever fails.     *)
THEOREM MetricsCorrect == Spec => []MetricsAgree
<1>1. TypeOK /\ SemaphoreInv /\ MetricsInv /\ [Next]_vars => (TypeOK /\ SemaphoreInv /\ MetricsInv)'
  BY TypeStep, SemaphoreStep, MetricsStep DEF SemaphoreInv
<1>2. MetricsInv => MetricsAgree
  <2>1. Open = InFlight \ At({"unlinking"})
    BY DEF Open, InFlight, At, OpenStages
  <2> HIDE DEF Open
  <2> QED BY <2>1 DEF MetricsInv, CountsAgree, MetricsAgree, Succeeded, Excused
<1> QED BY <1>1, <1>2, TypeInit, SemaphoreInit, MetricsInit, PTL DEF Spec

=============================================================================
