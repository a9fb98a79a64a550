------------------------- MODULE ProcessPoolProofs -------------------------
(***************************************************************************)
(* Proofs about ProcessPool: no executor is forgotten, none is closed over *)
(* unfinished work, and who is given a dead one was beside a shutdown.      *)
(***************************************************************************)
EXTENDS ProcessPool, TLAPS

(* What a shutdown keeps true from its first step to its last. *)
LockInv ==
  /\ \A t \in Threads : stage[t] = "waiting" =>
       lock /\ global \in Executors /\ health[global] = "closing"
  /\ \A t, u \in Threads : stage[t] = "waiting" /\ stage[u] = "waiting" => t = u
  /\ \A e \in Executors : health[e] = "closing" => lock

(* A call that no shutdown overlapped has found or made a pool. *)
CallInv ==
  /\ \A t \in Threads : lock /\ stage[t] \in GetStages => overlapped[t]
  /\ \A t \in Threads : stage[t] = "returning" /\ ~overlapped[t] => global \in Executors
  /\ global \in Executors => health[global] # "closed"
  /\ \A t \in Threads : stage[t] = "working" => got[t] \in Executors

IInv == TypeOK /\ NoExecutorIsForgotten /\ ClosedMeansIdle /\ LockInv /\ CallInv

-----------------------------------------------------------------------------
LEMMA InitInv == Init => IInv
<1> SUFFICES ASSUME Init PROVE IInv
  OBVIOUS
<1>1. Executors = {}
  BY DEF Init, Executors
<1>2. health = [e \in {} |-> "open"] /\ work = [e \in {} |-> {}]
  BY DEF Init
<1>3. TypeOK
  <2>1. health \in [{} -> {"open", "broken", "closing", "closed"}] /\ work \in [{} -> SUBSET Threads]
    BY <1>2
  <2>2. health \in [Executors -> {"open", "broken", "closing", "closed"}] /\ work \in [Executors -> SUBSET Threads]
    BY <1>1, <2>1
  <2>3. /\ got \in [Threads -> Executors \cup {NoPool}] /\ overlapped \in [Threads -> BOOLEAN]
        /\ global \in Executors \cup {NoPool} /\ lock \in BOOLEAN
        /\ stage \in [Threads -> {"idle"}]
    BY DEF Init
  <2>4. created \in Nat /\ shutdowns \in 0..MaxShutdowns
    BY PoolParameters DEF Init
  <2> QED
    BY <2>2, <2>3, <2>4 DEF TypeOK
<1> QED
  BY <1>1, <1>3, PoolParameters DEF Init, IInv, NoExecutorIsForgotten, ClosedMeansIdle, LockInv, CallInv, GetStages

LEMMA TypeStep == TypeOK /\ [Next]_vars => TypeOK'
<1> SUFFICES ASSUME TypeOK, [Next]_vars PROVE TypeOK'
  OBVIOUS
<1>1. ASSUME NEW t \in Threads, CreateUnlessThere(t) PROVE TypeOK'
  <2>1. CASE global = NoPool
    <3>0. created \in Nat /\ health \in [1..created -> {"open", "broken", "closing", "closed"}]
             /\ work \in [1..created -> SUBSET Threads]
      BY DEF TypeOK, Executors
    <3>1. /\ Extended(health, "open") \in [1..created + 1 -> {"open", "broken", "closing", "closed"}]
          /\ Extended(work, {}) \in [1..created + 1 -> SUBSET Threads]
      BY <3>0, {} \in SUBSET Threads DEF Extended, Executors
    <3>2. /\ health' \in [1..created + 1 -> {"open", "broken", "closing", "closed"}]
          /\ work' \in [1..created + 1 -> SUBSET Threads]
      BY <1>1, <2>1, <3>1 DEF CreateUnlessThere
    <3>3. created' \in Nat /\ Executors' = 1..created + 1 /\ Executors \subseteq Executors'
      BY <1>1, <2>1, <3>0 DEF CreateUnlessThere, Executors
    <3>4. global' \in Executors' /\ got' \in [Threads -> Executors' \cup {NoPool}]
      BY <1>1, <2>1, <3>0, <3>3 DEF TypeOK, CreateUnlessThere
    <3> QED
      BY <1>1, <3>2, <3>3, <3>4 DEF TypeOK, CreateUnlessThere, Move
  <2>2. CASE global # NoPool
    BY <1>1, <2>2 DEF TypeOK, CreateUnlessThere, Executors, Move
  <2> QED BY <2>1, <2>2
<1>2. ASSUME NEW t \in Threads,
             Call(t) \/ CallShutdown(t) \/ Look(t) \/ Return(t) \/ Submit(t) \/ SubmitRaises(t) \/ WorkEnds(t) \/ SubmitToNone(t)
      PROVE  TypeOK'
  <2>1. CASE Call(t) BY <2>1 DEF TypeOK, Call, Move, Executors
  <2>2. CASE CallShutdown(t) BY <2>2, PoolParameters DEF TypeOK, CallShutdown, Move, Executors
  <2>3. CASE Look(t) BY <2>3 DEF TypeOK, Look, Move, Executors
  <2>4. CASE Return(t) BY <2>4 DEF TypeOK, Return, Move, Executors
  <2>5. CASE Submit(t) BY <2>5 DEF TypeOK, Submit, Move, Executors
  <2>6. CASE SubmitRaises(t) BY <2>6 DEF TypeOK, SubmitRaises, Move, Executors
  <2>7. CASE TaskEnds(t) BY <2>7 DEF TypeOK, TaskEnds, Move, Executors
  <2>8. CASE SubmitToNone(t) \/ OutsideEnds(t) BY <2>8 DEF TypeOK, SubmitToNone, OutsideEnds, Move, Executors
  <2> QED BY <1>2, <2>1, <2>2, <2>3, <2>4, <2>5, <2>6, <2>7, <2>8 DEF WorkEnds
<1>3. ASSUME NEW t \in Threads, ShutdownStep(t) PROVE TypeOK'
  <2>1. CASE NothingToShutDown(t) BY <2>1 DEF TypeOK, NothingToShutDown, Move, Executors
  <2>2. CASE BeginShutdown(t) BY <2>2 DEF TypeOK, BeginShutdown, Move, Executors
  <2>3. CASE EndShutdown(t) BY <2>3 DEF TypeOK, EndShutdown, Move, Executors
  <2> QED BY <1>3, <2>1, <2>2, <2>3 DEF ShutdownStep
<1>4. ASSUME NEW e \in Executors, WorkerDies(e) PROVE TypeOK'
  BY <1>4 DEF TypeOK, WorkerDies, Executors
<1>5. CASE UNCHANGED vars
  BY <1>5 DEF TypeOK, vars, Executors
<1> QED BY <1>1, <1>2, <1>3, <1>4, <1>5 DEF Next, GetStep

Safe == NoExecutorIsForgotten /\ ClosedMeansIdle /\ LockInv /\ CallInv

LEMMA SafeStep == IInv /\ [Next]_vars => Safe'
<1> SUFFICES ASSUME IInv, [Next]_vars PROVE Safe'
  OBVIOUS
<1>1. ASSUME NEW t \in Threads, Call(t) PROVE Safe'
  BY <1>1, PoolParameters DEF IInv, TypeOK, Safe, NoExecutorIsForgotten, ClosedMeansIdle, LockInv, CallInv, GetStages, Move, Executors, Call
<1>2. ASSUME NEW t \in Threads, CallShutdown(t) PROVE Safe'
  BY <1>2, PoolParameters DEF IInv, TypeOK, Safe, NoExecutorIsForgotten, ClosedMeansIdle, LockInv, CallInv, GetStages, Move, Executors, CallShutdown
<1>3. ASSUME NEW t \in Threads, Look(t) PROVE Safe'
  BY <1>3, PoolParameters DEF IInv, TypeOK, Safe, NoExecutorIsForgotten, ClosedMeansIdle, LockInv, CallInv, GetStages, Move, Executors, Look
<1>4. ASSUME NEW t \in Threads, CreateUnlessThere(t) PROVE Safe'
  <2>1. CASE global # NoPool
    BY <1>4, <2>1, PoolParameters DEF IInv, TypeOK, Safe, NoExecutorIsForgotten, ClosedMeansIdle, LockInv, CallInv, GetStages, Move, Executors, CreateUnlessThere
  <2>2. CASE global = NoPool
    <3>1. /\ \A e \in Executors : health[e] = "closed"
          /\ Executors' = Executors \cup {global'} /\ global' \notin Executors
      BY <1>4, <2>2, PoolParameters DEF IInv, TypeOK, NoExecutorIsForgotten, Executors, CreateUnlessThere
    <3>2. /\ \A e \in Executors : health'[e] = health[e] /\ work'[e] = work[e]
          /\ health'[global'] = "open" /\ work'[global'] = {}
      BY <1>4, <2>2 DEF IInv, TypeOK, CreateUnlessThere, Extended, Executors
    <3>3. /\ ~lock /\ ~lock' /\ got' = got /\ overlapped' = overlapped
          /\ stage' = [stage EXCEPT ![t] = "returning"] /\ stage[t] = "locking"
      BY <1>4 DEF CreateUnlessThere, Move
    <3>9. stage' = [u \in Threads |-> IF u = t THEN "returning" ELSE stage[u]]
      BY <3>3 DEF IInv, TypeOK
    <3>4. NoExecutorIsForgotten'
      BY <3>1, <3>2 DEF NoExecutorIsForgotten
    <3>5. ClosedMeansIdle'
      <4>1. \A e \in Executors' : health'[e] = "closed" => work'[e] = {}
        BY <3>1, <3>2 DEF IInv, ClosedMeansIdle
      <4>2. \A u \in Threads : stage'[u] = "working" => u \in work'[got'[u]]
        BY <3>2, <3>3, <3>9 DEF IInv, ClosedMeansIdle, CallInv
      <4> QED BY <4>1, <4>2 DEF ClosedMeansIdle
    <3>6. LockInv'
      BY <3>1, <3>2, <3>3, <3>9 DEF IInv, LockInv
    <3>7. CallInv'
      BY <3>1, <3>2, <3>3, <3>9 DEF IInv, CallInv
    <3> QED
      BY <3>4, <3>5, <3>6, <3>7 DEF Safe
  <2> QED BY <2>1, <2>2
<1>5. ASSUME NEW t \in Threads, Return(t) PROVE Safe'
  BY <1>5, PoolParameters DEF IInv, TypeOK, Safe, NoExecutorIsForgotten, ClosedMeansIdle, LockInv, CallInv, GetStages, Move, Executors, Return
<1>6. ASSUME NEW t \in Threads, Submit(t) PROVE Safe'
  BY <1>6, PoolParameters DEF IInv, TypeOK, Safe, NoExecutorIsForgotten, ClosedMeansIdle, LockInv, CallInv, GetStages, Move, Executors, Submit, Accepts
<1>7. ASSUME NEW t \in Threads, SubmitRaises(t) PROVE Safe'
  BY <1>7, PoolParameters DEF IInv, TypeOK, Safe, NoExecutorIsForgotten, ClosedMeansIdle, LockInv, CallInv, GetStages, Move, Executors, SubmitRaises, Accepts
<1>8. ASSUME NEW t \in Threads, TaskEnds(t) PROVE Safe'
  BY <1>8, PoolParameters DEF IInv, TypeOK, Safe, NoExecutorIsForgotten, ClosedMeansIdle, LockInv, CallInv, GetStages, Move, Executors, TaskEnds
<1>9. ASSUME NEW t \in Threads, NothingToShutDown(t) PROVE Safe'
  BY <1>9, PoolParameters DEF IInv, TypeOK, Safe, NoExecutorIsForgotten, ClosedMeansIdle, LockInv, CallInv, GetStages, Move, Executors, NothingToShutDown
<1>10. ASSUME NEW t \in Threads, BeginShutdown(t) PROVE Safe'
  <2>0. /\ stage[t] = "stopping" /\ ~lock /\ lock' /\ global \in Executors
        /\ global' = global /\ created' = created /\ work' = work /\ got' = got
        /\ overlapped' = [u \in Threads |-> stage[u] \in GetStages \/ overlapped[u]]
    BY <1>10 DEF IInv, TypeOK, BeginShutdown
  <2>9. stage' = [u \in Threads |-> IF u = t THEN "waiting" ELSE stage[u]]
    BY <1>10 DEF IInv, TypeOK, BeginShutdown, Move
  <2>8. health' = [e \in Executors |-> IF e = global THEN "closing" ELSE health[e]]
    BY <1>10 DEF IInv, TypeOK, BeginShutdown
  <2>1. /\ stage[t] = "stopping" /\ ~lock /\ lock' /\ global \in Executors
        /\ global' = global /\ created' = created /\ work' = work /\ got' = got
        /\ stage' = [u \in Threads |-> IF u = t THEN "waiting" ELSE stage[u]]
        /\ health' = [e \in Executors |-> IF e = global THEN "closing" ELSE health[e]]
        /\ overlapped' = [u \in Threads |-> stage[u] \in GetStages \/ overlapped[u]]
    BY <2>0, <2>9, <2>8
  <2>2. Executors' = Executors
    BY <2>1 DEF Executors
  <2>3. NoExecutorIsForgotten'
    BY <2>1, <2>2 DEF IInv, NoExecutorIsForgotten
  <2>4. ClosedMeansIdle'
    BY <2>1, <2>2 DEF IInv, ClosedMeansIdle
  <2>5. LockInv'
    BY <2>1, <2>2 DEF IInv, LockInv
  <2>6. CallInv'
    BY <2>1, <2>2 DEF IInv, CallInv, GetStages
  <2> QED
    BY <2>3, <2>4, <2>5, <2>6 DEF Safe
<1>11. ASSUME NEW t \in Threads, EndShutdown(t) PROVE Safe'
  BY <1>11, PoolParameters DEF IInv, TypeOK, Safe, NoExecutorIsForgotten, ClosedMeansIdle, LockInv, CallInv, GetStages, Move, Executors, EndShutdown
<1>12. ASSUME NEW e \in Executors, WorkerDies(e) PROVE Safe'
  BY <1>12, PoolParameters DEF IInv, TypeOK, Safe, NoExecutorIsForgotten, ClosedMeansIdle, LockInv, CallInv, GetStages, Executors, WorkerDies
<1>14. ASSUME NEW t \in Threads, SubmitToNone(t) \/ OutsideEnds(t) PROVE Safe'
  <2>1. /\ \A u \in Threads : stage'[u] = stage[u] \/ stage'[u] \in {"outside", "idle"}
        /\ global' = global /\ lock' = lock /\ created' = created /\ health' = health
        /\ work' = work /\ got' = got /\ overlapped' = overlapped
    BY <1>14 DEF IInv, TypeOK, SubmitToNone, OutsideEnds, Move
  <2> QED
    BY <2>1 DEF IInv, Safe, NoExecutorIsForgotten, ClosedMeansIdle, LockInv, CallInv, GetStages, Executors
<1>13. CASE UNCHANGED vars
  BY <1>13 DEF IInv, TypeOK, Safe, NoExecutorIsForgotten, ClosedMeansIdle, LockInv, CallInv, GetStages, Executors, vars
<1> QED BY <1>1, <1>2, <1>3, <1>4, <1>5, <1>6, <1>7, <1>8, <1>9, <1>10, <1>11, <1>12, <1>13, <1>14 DEF Next, GetStep, WorkEnds, ShutdownStep

LEMMA InvStep == IInv /\ [Next]_vars => IInv'
BY TypeStep, SafeStep DEF IInv, Safe

THEOREM Invariance == Spec => []IInv
<1>1. Init => IInv
  BY InitInv
<1>2. IInv /\ [Next]_vars => IInv'
  BY InvStep
<1> QED
  BY <1>1, <1>2, PTL DEF Spec

(* The variables keep their types, for any threads and calls (get_process_pool, *)
(* shutdown_process_pool).                                                       *)
THEOREM PoolTypes == Spec => []TypeOK
<1>1. IInv => TypeOK
  BY DEF IInv
<1> QED
  BY <1>1, Invariance, PTL

(* However many threads look for a pool at once, there is one executor that *)
(* has not been shut down and it is the global one (get_process_pool).      *)
THEOREM OnePool == Spec => []NoExecutorIsForgotten
<1>1. IInv => NoExecutorIsForgotten
  BY DEF IInv
<1> QED
  BY <1>1, Invariance, PTL

(* No executor is closed over unfinished work (shutdown_process_pool). *)
THEOREM ShutdownWaits == Spec => []ClosedMeansIdle
<1>1. IInv => ClosedMeansIdle
  BY DEF IInv
<1> QED
  BY <1>1, Invariance, PTL

(* Who is given no executor, or one that is shut down, called beside a     *)
(* shutdown (get_process_pool's second reading of the global).             *)
THEOREM DeadPoolsExplained == Spec => DeadPoolOnlyBesideShutdown
<1>1. ASSUME IInv, [Next]_vars
      PROVE  [\A t \in Threads : Return(t) /\ ~overlapped[t] =>
                got'[t] # NoPool /\ health[got'[t]] \in {"open", "broken"}]_vars
  <2>1. ASSUME NEW t \in Threads, Return(t), ~overlapped[t]
        PROVE  got'[t] # NoPool /\ health[got'[t]] \in {"open", "broken"}
    <3>1. got'[t] = global /\ stage[t] = "returning"
      BY <1>1, <2>1 DEF Return, IInv, TypeOK
    <3>2. global \in Executors /\ ~lock
      BY <1>1, <2>1, <3>1 DEF IInv, CallInv, GetStages
    <3>3. health[global] \in {"open", "broken"}
      BY <1>1, <3>2 DEF IInv, TypeOK, CallInv, LockInv
    <3> QED
      BY <3>1, <3>2, <3>3, PoolParameters DEF Executors
  <2> QED
    BY <2>1
<1> QED
  BY <1>1, Invariance, PTL DEF Spec, DeadPoolOnlyBesideShutdown

=============================================================================
