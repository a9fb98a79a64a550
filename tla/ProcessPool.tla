---------------------------- MODULE ProcessPool ----------------------------
(***************************************************************************)
(* The global process pool of pool.py: get_process_pool, which looks at    *)
(* the global before it takes the lock and reads it once more to return    *)
(* it, against shutdown_process_pool, which keeps the lock while it waits  *)
(* for the work in the pool.  A caller submits to what it was given with    *)
(* run_in_executor.                                                         *)
(***************************************************************************)
EXTENDS Integers

CONSTANTS Threads,
          NoPool,    \* None
          MaxShutdowns,  \* bound: calls of shutdown_process_pool
          Faults     \* "death": a worker process may die

ASSUME PoolParameters ==
  /\ MaxShutdowns \in Nat /\ NoPool \notin Nat
  /\ Faults \subseteq {"death"}

VARIABLES stage,     \* of each thread: at which statement of which call it is
          global,    \* _process_pool; executors are numbered
          lock,      \* _process_pool_lock is held across the wait of a shutdown
          created,   \* executors created so far
          shutdowns, \* calls of shutdown_process_pool so far
          health,    \* of each executor created
          work,      \* of each executor: threads whose task it has accepted
          got,       \* what the thread's last get_process_pool returned
          overlapped \* history: a shutdown ran during the thread's call

vars == <<stage, global, lock, created, shutdowns, health, work, got, overlapped>>

Executors == 1..created
GetStages == {"looking", "locking", "returning"}

Init ==
  /\ stage = [t \in Threads |-> "idle"]
  /\ global = NoPool /\ lock = FALSE /\ created = 0 /\ shutdowns = 0
  /\ health = <<>> /\ work = <<>>
  /\ got = [t \in Threads |-> NoPool]
  /\ overlapped = [t \in Threads |-> FALSE]

(* f for one executor more *)
Extended(f, x) == [e \in 1..created + 1 |-> IF e \in Executors THEN f[e] ELSE x]

Move(t, s) == stage' = [stage EXCEPT ![t] = s]

-----------------------------------------------------------------------------
(* get_process_pool, and what the caller does with the result.             *)
Call(t) ==
  /\ stage[t] = "idle"
  /\ Move(t, "looking")
  /\ overlapped' = [overlapped EXCEPT ![t] = lock]
  /\ UNCHANGED <<shutdowns, global, lock, created, health, work, got>>

Look(t) ==  \* without the lock
  /\ stage[t] = "looking"
  /\ Move(t, IF global = NoPool THEN "locking" ELSE "returning")
  /\ UNCHANGED <<shutdowns, global, lock, created, health, work, got, overlapped>>

CreateUnlessThere_Unseen(t) ==  \* faulty: the global is not looked at again
  /\ stage[t] = "locking" /\ ~lock
  /\ created' = created + 1 /\ global' = created + 1
  /\ health' = Extended(health, "open") /\ work' = Extended(work, {})
  /\ Move(t, "returning")
  /\ UNCHANGED <<shutdowns, lock, got, overlapped>>

(* Nobody else holds the lock and all that others can see of the locked    *)
(* section is the assignment.                                               *)
CreateUnlessThere(t) ==
  /\ stage[t] = "locking" /\ ~lock
  /\ IF global = NoPool
       THEN /\ created' = created + 1 /\ global' = created + 1
            /\ health' = Extended(health, "open") /\ work' = Extended(work, {})
       ELSE UNCHANGED <<global, created, health, work>>
  /\ Move(t, "returning")
  /\ UNCHANGED <<shutdowns, lock, got, overlapped>>

Accepts(e) == e # NoPool /\ health[e] = "open"

Return_OnlyHealthy(t) ==  \* faulty: tried again until the executor is usable
  /\ stage[t] = "returning"
  /\ Move(t, IF Accepts(global) THEN "submitting" ELSE "looking")
  /\ got' = [got EXCEPT ![t] = global]
  /\ UNCHANGED <<shutdowns, global, lock, created, health, work, overlapped>>

Return(t) ==  \* the global is read once more
  /\ stage[t] = "returning"
  /\ Move(t, "submitting")
  /\ got' = [got EXCEPT ![t] = global]
  /\ UNCHANGED <<shutdowns, global, lock, created, health, work, overlapped>>

Submit(t) ==
  /\ stage[t] = "submitting" /\ Accepts(got[t])
  /\ Move(t, "working")
  /\ work' = [work EXCEPT ![got[t]] = @ \cup {t}]
  /\ UNCHANGED <<shutdowns, global, lock, created, health, got, overlapped>>

SubmitRaises(t) ==  \* the executor is shut down or broken
  /\ stage[t] = "submitting" /\ got[t] # NoPool /\ ~Accepts(got[t])
  /\ Move(t, "idle")
  /\ UNCHANGED <<shutdowns, global, lock, created, health, work, got, overlapped>>

SubmitToNone(t) ==  \* run_in_executor(None, ...): a thread of the caller's own
  /\ stage[t] = "submitting" /\ got[t] = NoPool
  /\ Move(t, "outside")
  /\ UNCHANGED <<shutdowns, global, lock, created, health, work, got, overlapped>>

OutsideEnds(t) ==
  /\ stage[t] = "outside"
  /\ Move(t, "idle")
  /\ UNCHANGED <<shutdowns, global, lock, created, health, work, got, overlapped>>

TaskEnds(t) ==
  /\ stage[t] = "working"
  /\ Move(t, "idle")
  /\ work' = [work EXCEPT ![got[t]] = @ \ {t}]
  /\ UNCHANGED <<shutdowns, global, lock, created, health, got, overlapped>>

(* The executor of a worker that dies fails all its tasks and stays broken. *)
WorkerDies(e) ==
  /\ "death" \in Faults
  /\ e \in Executors /\ health[e] \in {"open", "closing"}
  /\ health' = [health EXCEPT ![e] = IF @ = "open" THEN "broken" ELSE @]
  /\ work' = [work EXCEPT ![e] = {}]
  /\ stage' = [t \in Threads |-> IF t \in work[e] THEN "idle" ELSE stage[t]]
  /\ UNCHANGED <<shutdowns, global, lock, created, got, overlapped>>

-----------------------------------------------------------------------------
(* shutdown_process_pool. *)
CallShutdown(t) ==
  /\ stage[t] = "idle" /\ shutdowns < MaxShutdowns
  /\ Move(t, "stopping")
  /\ shutdowns' = shutdowns + 1
  /\ UNCHANGED <<global, lock, created, health, work, got, overlapped>>

NothingToShutDown(t) ==
  /\ stage[t] = "stopping" /\ ~lock /\ global = NoPool
  /\ Move(t, "idle")
  /\ UNCHANGED <<shutdowns, global, lock, created, health, work, got, overlapped>>

BeginShutdown(t) ==  \* the executor refuses work from now on
  /\ stage[t] = "stopping" /\ ~lock /\ global # NoPool
  /\ Move(t, "waiting")
  /\ lock' = TRUE
  /\ health' = [health EXCEPT ![global] = "closing"]
  /\ overlapped' = [u \in Threads |-> stage[u] \in GetStages \/ overlapped[u]]
  /\ UNCHANGED <<shutdowns, global, created, work, got>>

EndShutdown_DoesNotWait(t) ==  \* faulty: wait=False
  /\ stage[t] = "waiting"
  /\ Move(t, "idle")
  /\ lock' = FALSE /\ global' = NoPool
  /\ health' = [health EXCEPT ![global] = "closed"]
  /\ UNCHANGED <<shutdowns, created, work, got, overlapped>>

EndShutdown_KeepsGlobal(t) ==  \* faulty: the global is not cleared
  /\ stage[t] = "waiting" /\ work[global] = {}
  /\ Move(t, "idle")
  /\ lock' = FALSE
  /\ health' = [health EXCEPT ![global] = "closed"]
  /\ UNCHANGED <<shutdowns, global, created, work, got, overlapped>>

EndShutdown(t) ==
  /\ stage[t] = "waiting" /\ work[global] = {}
  /\ Move(t, "idle")
  /\ lock' = FALSE /\ global' = NoPool
  /\ health' = [health EXCEPT ![global] = "closed"]
  /\ UNCHANGED <<shutdowns, created, work, got, overlapped>>

-----------------------------------------------------------------------------
GetStep(t) ==
  Look(t) \/ CreateUnlessThere(t) \/ Return(t) \/ Submit(t) \/ SubmitRaises(t) \/ SubmitToNone(t)
WorkEnds(t) == TaskEnds(t) \/ OutsideEnds(t)
ShutdownStep(t) == NothingToShutDown(t) \/ BeginShutdown(t) \/ EndShutdown(t)

Next ==
  \/ \E t \in Threads : Call(t) \/ CallShutdown(t) \/ GetStep(t) \/ WorkEnds(t) \/ ShutdownStep(t)
  \/ \E e \in Executors : WorkerDies(e)

Spec == Init /\ [][Next]_vars

(* Threads go on, and every conversion ends. *)
FairSpec ==
  Spec /\ \A t \in Threads : WF_vars(GetStep(t)) /\ WF_vars(WorkEnds(t)) /\ WF_vars(ShutdownStep(t))

-----------------------------------------------------------------------------
TypeOK ==
  /\ stage \in [Threads -> {"idle", "looking", "locking", "returning", "submitting",
                            "working", "outside", "stopping", "waiting"}]
  /\ lock \in BOOLEAN
  /\ created \in Nat /\ shutdowns \in 0..MaxShutdowns
  /\ global \in Executors \cup {NoPool}
  /\ health \in [Executors -> {"open", "broken", "closing", "closed"}]
  /\ work \in [Executors -> SUBSET Threads]
  /\ got \in [Threads -> Executors \cup {NoPool}]
  /\ overlapped \in [Threads -> BOOLEAN]

(* However many threads find no pool at the same time, there is one: every  *)
(* executor that has not been shut down is the global one, where the next    *)
(* shutdown finds it (pool.py, the second look under the lock).             *)
NoExecutorIsForgotten == \A e \in Executors : health[e] # "closed" => e = global

(* shutdown_process_pool waits: an executor that is closed has no task of   *)
(* anybody, and a task that was accepted has an executor to finish it.      *)
ClosedMeansIdle ==
  /\ \A e \in Executors : health[e] = "closed" => work[e] = {}
  /\ \A t \in Threads : stage[t] = "working" => t \in work[got[t]]

(* pool.py, "Returns the thread-safe global ProcessPoolExecutor": a caller  *)
(* is given nothing, or an executor that is shut down, only if a shutdown   *)
(* ran during its call.                                                      *)
DeadPoolOnlyBesideShutdown ==
  [][\A t \in Threads : Return(t) /\ ~overlapped[t] =>
       got'[t] # NoPool /\ health[got'[t]] \in {"open", "broken"}]_vars

(* Every call comes back to its caller: nobody waits for a lock that is     *)
(* never released, or for a pool that is never empty.                        *)
EveryCallReturns == \A t \in Threads : stage[t] # "idle" ~> stage[t] = "idle"
=============================================================================
