-------------------------- MODULE ConversionServer --------------------------
(***************************************************************************)
(* The POST /convert/ handler of server.py on its event loop, with the     *)
(* asyncio.Semaphore that throttles it, the process pool of pool.py, the   *)
(* temporary upload, the output directory and the metrics registry.       *)
(*                                                                         *)
(* The event loop is one thread: what convert_file does between two awaits *)
(* that really suspend is one action.  pc[r] names the await at which the  *)
(* handler of request r is suspended, or, once its task is submitted, how  *)
(* far the pool is with that task.                                         *)
(***************************************************************************)
EXTENDS Integers, Sequences, FiniteSets

CONSTANTS Requests,     \* the requests clients will ever send
          MaxWorkers,   \* DOCLING_MAX_WORKERS
          MemLevels,    \* int(available_gb / 1.5): conversions that fit in RAM
          Keep,         \* durations kept by the registry (1000 in the code)
          MaxRestarts,  \* bound: restarts of the server process
          Faults        \* which failures the environment may inject

ASSUME RequestsFinite == IsFiniteSet(Requests)
ASSUME BoundsArePositive == /\ MaxWorkers \in Nat \ {0}
                            /\ Keep \in Nat \ {0}
                            /\ MaxRestarts \in Nat
ASSUME MemLevelsAreNatural == MemLevels \subseteq Nat /\ MemLevels # {}
ASSUME KnownFaults == Faults \subseteq {"disk", "conversion", "worker", "kill", "psutil"}

VARIABLES
  up, restarts,          \* the server process is running; how often restarted
  mem,                   \* what psutil would report now
  pc, code,              \* progress and (planned or sent) HTTP status
  tempFiles,             \* requests whose upload is on disk in UPLOAD_DIR
  undeletable,           \* history: requests for which an unlink raised
  outDir,                \* what OUTPUT_DIR/<request id> holds
  limit, value, waiters, \* the semaphore: 0 = not created, _value, _waiters
  pool,                  \* _process_pool
  active, totals, samples, \* _MetricsRegistry
  admitted               \* history: requests this instance let past validation

semVars == <<limit, value, waiters>>
metricVars == <<active, totals, samples>>
fileVars == <<tempFiles, undeletable, outDir>>
envVars == <<up, restarts, mem>>
vars == <<envVars, pc, code, fileVars, semVars, pool, metricVars, admitted>>

Stages == {"new", "refused", "creating", "writing", "discarding", "mkdir",
           "waiting", "granted", "queued", "converting", "publishing",
           "converted", "unconverted", "raised", "checking", "unlinking",
           "answered", "lost"}
Codes == {0, 200, 400, 413, 500}

At(stages) == {r \in Requests : pc[r] \in stages}
InPool == {"queued", "converting", "publishing"}
Resolved == {"converted", "unconverted", "raised"}  \* the future has a result
Holding == {"granted"} \cup InPool \cup Resolved     \* owns a permit
Settled == {"new", "refused", "answered", "lost"}
InFlight == At(Stages \ Settled)

Smaller(a, b) == IF a < b THEN a ELSE b
Larger(a, b) == IF a > b THEN a ELSE b

(* get_dynamic_semaphore_limit, and what it returns when psutil raises. *)
DynamicLimit(m) == Smaller(Larger(1, m), Larger(2, MaxWorkers))
FallbackLimit == Larger(1, MaxWorkers)
Limits == {DynamicLimit(mem), FallbackLimit, limit}  \* of a new semaphore or the one there is

Init ==
  /\ up = TRUE /\ restarts = 0
  /\ mem \in MemLevels
  /\ pc = [r \in Requests |-> "new"]
  /\ code = [r \in Requests |-> 0]
  /\ tempFiles = {} /\ undeletable = {}
  /\ outDir = [r \in Requests |-> "absent"]
  /\ limit = 0 /\ value = 0 /\ waiters = <<>>
  /\ pool = "none"
  /\ active = 0 /\ totals = [success |-> 0, error |-> 0] /\ samples = 0
  /\ admitted = {}

-----------------------------------------------------------------------------
(* The finally block of convert_file: the gauge and the registry are        *)
(* updated in the step in which the outcome is known; only the unlink of    *)
(* tmp_path, when _save_upload_temp returned one, is awaited.               *)
Record(status) ==
  /\ totals' = [totals EXCEPT ![status] = @ + 1]
  /\ samples' = Smaller(samples + 1, Keep)

Conclude(status) ==
  /\ active' = Larger(0, active - 1)
  /\ Record(status)

Move(r, stage) == pc' = [pc EXCEPT ![r] = stage]
Plan(r, c) == code' = [code EXCEPT ![r] = c]

(* asyncio.Semaphore (Python 3.12).  waiters holds the futures not yet done; *)
(* a request whose future is done but that has not resumed is "granted".     *)
Locked_LetsBarge == value = 0                                   \* faulty

Locked == value = 0 \/ waiters # <<>> \/ At({"granted"}) # {}

Wake(n, progress) ==  \* _wake_up_next, n times
  /\ waiters' = SubSeq(waiters, n + 1, Len(waiters))
  /\ pc' = [r \in Requests |-> IF \E i \in 1..n : waiters[i] = r
                               THEN "granted" ELSE progress[r]]

(* release() by a request that moves to the given stage. *)
ReleaseTo_KeepsPermit(r, stage) == Move(r, stage) /\ UNCHANGED semVars  \* faulty

ReleaseTo(r, stage) ==
  LET n == Smaller(1, Len(waiters))
  IN  /\ value' = value + 1 - n
      /\ Wake(n, [pc EXCEPT ![r] = stage])
      /\ UNCHANGED limit

-----------------------------------------------------------------------------
(* convert_file up to its first await. *)
Refuse(r, c) ==  \* _validate_content_length or _validate_extension raised
  /\ up /\ pc[r] = "new"
  /\ Move(r, "refused") /\ Plan(r, c)
  /\ UNCHANGED <<envVars, fileVars, semVars, pool, metricVars, admitted>>

Accept(r) ==
  /\ up /\ pc[r] = "new"
  /\ Move(r, "creating")
  /\ active' = active + 1
  /\ admitted' = admitted \cup {r}
  /\ UNCHANGED <<envVars, code, fileVars, semVars, pool, totals, samples>>

(* _save_upload_temp: NamedTemporaryFile, _sync_write and the clean-up of a  *)
(* partial file, each awaited in the thread pool.                            *)
CreateTemp(r) ==
  /\ pc[r] = "creating"
  /\ Move(r, "writing")
  /\ tempFiles' = tempFiles \cup {r}
  /\ UNCHANGED <<envVars, code, undeletable, outDir, semVars, pool, metricVars, admitted>>

CreateTempFails(r) ==
  /\ "disk" \in Faults /\ pc[r] = "creating"
  /\ Conclude("error") /\ Move(r, "answered") /\ Plan(r, 500)
  /\ UNCHANGED <<envVars, fileVars, semVars, pool, admitted>>

WriteTemp_DeleteOnClose(r) ==  \* faulty: NamedTemporaryFile(delete=True)
  /\ pc[r] = "writing"
  /\ Move(r, "mkdir")
  /\ tempFiles' = tempFiles \ {r}
  /\ UNCHANGED <<envVars, code, undeletable, outDir, semVars, pool, metricVars, admitted>>

WriteTemp(r) ==
  /\ pc[r] = "writing"
  /\ Move(r, "mkdir")
  /\ UNCHANGED <<envVars, code, fileVars, semVars, pool, metricVars, admitted>>

WriteTempFails_NoDiscard(r, c) ==  \* faulty: the partial upload is left behind
  /\ pc[r] = "writing"
  /\ c = 413 \/ "disk" \in Faults
  /\ Conclude("error") /\ Move(r, "answered") /\ Plan(r, c)
  /\ UNCHANGED <<envVars, fileVars, semVars, pool, admitted>>

WriteTempFails(r, c) ==  \* 413: larger than MAX_UPLOAD_SIZE; 500: I/O error
  /\ pc[r] = "writing"
  /\ c = 413 \/ "disk" \in Faults
  /\ Move(r, "discarding") /\ Plan(r, c)
  /\ UNCHANGED <<envVars, fileVars, semVars, pool, metricVars, admitted>>

DiscardTemp(r) ==
  /\ pc[r] = "discarding"
  /\ tempFiles' = tempFiles \ {r}
  /\ Conclude("error") /\ Move(r, "answered")
  /\ UNCHANGED <<envVars, code, undeletable, outDir, semVars, pool, admitted>>

DiscardTempFails(r) ==
  /\ "disk" \in Faults /\ pc[r] = "discarding"
  /\ undeletable' = undeletable \cup {r}
  /\ Conclude("error") /\ Move(r, "answered") /\ Plan(r, 500)
  /\ UNCHANGED <<envVars, tempFiles, outDir, semVars, pool, admitted>>

MakeOutputDirFails(r) ==
  /\ "disk" \in Faults /\ pc[r] = "mkdir"
  /\ Conclude("error") /\ Move(r, "unlinking") /\ Plan(r, 500)
  /\ UNCHANGED <<envVars, fileVars, semVars, pool, admitted>>

-----------------------------------------------------------------------------
(* _run_multiprocess_conversion.  get_concurrency_semaphore creates the      *)
(* semaphore once, with the limit that memory allows at that moment.  When   *)
(* acquire does not wait, submitting to the pool is part of the same step:   *)
(* a broken pool raises in it, which releases the permit at once.            *)
MakeOutputDirAndQueue(r) ==  \* acquire has to wait
  /\ pc[r] = "mkdir" /\ limit # 0 /\ Locked
  /\ outDir' = [outDir EXCEPT ![r] = "empty"]
  /\ waiters' = Append(waiters, r)
  /\ Move(r, "waiting")
  /\ UNCHANGED <<envVars, code, tempFiles, undeletable, limit, value, pool,
                 metricVars, admitted>>

MakeOutputDirAndSubmit_NewSemaphore(r, lim) ==  \* faulty: one created per call
  /\ pc[r] = "mkdir" /\ lim = DynamicLimit(mem) /\ pool # "broken"
  /\ outDir' = [outDir EXCEPT ![r] = "empty"]
  /\ limit' = lim /\ value' = lim - 1 /\ pool' = "up"
  /\ Move(r, "queued")
  /\ UNCHANGED <<envVars, code, tempFiles, undeletable, waiters, metricVars, admitted>>

MakeOutputDirAndSubmit(r, lim) ==  \* acquire succeeds without waiting
  /\ pc[r] = "mkdir"
  /\ IF limit = 0 THEN \/ lim = DynamicLimit(mem)
                       \/ "psutil" \in Faults /\ lim = FallbackLimit
                  ELSE lim = limit /\ ~Locked
  /\ pool # "broken"
  /\ outDir' = [outDir EXCEPT ![r] = "empty"]
  /\ limit' = lim
  /\ value' = (IF limit = 0 THEN lim ELSE value) - 1
  /\ pool' = "up"
  /\ Move(r, "queued")
  /\ UNCHANGED <<envVars, code, tempFiles, undeletable, waiters, metricVars, admitted>>

MakeOutputDirAndFail(r) ==  \* no wait, and the pool is broken
  /\ pc[r] = "mkdir" /\ pool = "broken" /\ ~Locked
  /\ outDir' = [outDir EXCEPT ![r] = "empty"]
  /\ Conclude("error") /\ Move(r, "unlinking") /\ Plan(r, 500)
  /\ UNCHANGED <<envVars, tempFiles, undeletable, semVars, pool, admitted>>

(* A woken acquire resumes: it wakes as many followers as free permits       *)
(* allow, then its request goes on to the pool.                              *)
ResumeAndSubmit_WakesNobody(r) ==  \* faulty: no wake-up after a wait
  /\ pc[r] = "granted" /\ pool # "broken"
  /\ Move(r, "queued")
  /\ pool' = "up"
  /\ UNCHANGED <<envVars, code, fileVars, semVars, metricVars, admitted>>

ResumeAndSubmit(r) ==
  LET n == Smaller(value, Len(waiters))
  IN  /\ pc[r] = "granted" /\ pool # "broken"
      /\ Wake(n, [pc EXCEPT ![r] = "queued"])
      /\ value' = value - n
      /\ pool' = "up"
      /\ UNCHANGED <<envVars, code, fileVars, limit, metricVars, admitted>>

ResumeAndFail_KeepsPermit(r) ==  \* faulty: acquire without a finally
  /\ pc[r] = "granted" /\ pool = "broken"
  /\ Conclude("error") /\ Move(r, "unlinking") /\ Plan(r, 500)
  /\ UNCHANGED <<envVars, fileVars, semVars, pool, admitted>>

ResumeAndFail(r) ==  \* the same, but submit raises and the permit goes back
  LET n == Smaller(value + 1, Len(waiters))
  IN  /\ pc[r] = "granted" /\ pool = "broken"
      /\ Wake(n, [pc EXCEPT ![r] = "unlinking"])
      /\ value' = value + 1 - n
      /\ Conclude("error") /\ Plan(r, 500)
      /\ UNCHANGED <<envVars, fileVars, limit, pool, admitted>>

-----------------------------------------------------------------------------
(* The process pool. *)
WorkerTakes(r) ==
  /\ pc[r] = "queued" /\ pool = "up"
  /\ Cardinality(At({"converting", "publishing"})) < MaxWorkers
  /\ Move(r, "converting")
  /\ UNCHANGED <<envVars, code, fileVars, semVars, pool, metricVars, admitted>>

(* process_pdf returns a path: its files are copied one by one to outDir. *)
WorkerConverts_AnswersEarly(r) ==  \* faulty: the path is returned before the copy
  /\ pc[r] = "converting"
  /\ Move(r, "converted")
  /\ outDir' = [outDir EXCEPT ![r] = "partial"]
  /\ UNCHANGED <<envVars, code, tempFiles, undeletable, semVars, pool, metricVars, admitted>>

WorkerConverts(r) ==
  /\ pc[r] = "converting"
  /\ Move(r, "publishing")
  /\ outDir' = [outDir EXCEPT ![r] = "partial"]
  /\ UNCHANGED <<envVars, code, tempFiles, undeletable, semVars, pool, metricVars, admitted>>

WorkerPublishes(r) ==
  /\ pc[r] = "publishing"
  /\ Move(r, "converted")
  /\ outDir' = [outDir EXCEPT ![r] = "full"]
  /\ UNCHANGED <<envVars, code, tempFiles, undeletable, semVars, pool, metricVars, admitted>>

WorkerGivesUp(r) ==  \* process_pdf logged an error and returned None
  /\ "conversion" \in Faults /\ pc[r] = "converting"
  /\ Move(r, "unconverted")
  /\ UNCHANGED <<envVars, code, fileVars, semVars, pool, metricVars, admitted>>

WorkerRaises(r) ==  \* a copy into or out of the task directory failed
  /\ "disk" \in Faults /\ pc[r] \in {"converting", "publishing"}
  /\ Move(r, "raised")
  /\ UNCHANGED <<envVars, code, fileVars, semVars, pool, metricVars, admitted>>

(* A worker process dies: the executor marks itself broken for good and      *)
(* fails every task it still has with BrokenProcessPool.                     *)
WorkerDies ==
  /\ "worker" \in Faults /\ up /\ pool = "up"
  /\ pool' = "broken"
  /\ pc' = [r \in Requests |-> IF pc[r] \in InPool THEN "raised" ELSE pc[r]]
  /\ UNCHANGED <<envVars, code, fileVars, semVars, metricVars, admitted>>

-----------------------------------------------------------------------------
(* The handler resumes with the future's result, leaves the semaphore's      *)
(* block and validates the result.                                           *)
CollectPath(r) ==
  /\ pc[r] = "converted"
  /\ ReleaseTo(r, "checking")
  /\ UNCHANGED <<envVars, code, fileVars, pool, metricVars, admitted>>

CollectFailure(r) ==
  /\ pc[r] \in {"unconverted", "raised"}
  /\ ReleaseTo(r, "unlinking")
  /\ Conclude("error") /\ Plan(r, 500)
  /\ UNCHANGED <<envVars, fileVars, pool, admitted>>

CheckOutput_StatusNotSet(r) ==  \* faulty: status keeps its initial "error"
  /\ pc[r] = "checking" /\ outDir[r] \in {"partial", "full"}
  /\ Conclude("error") /\ Move(r, "unlinking") /\ Plan(r, 200)
  /\ UNCHANGED <<envVars, fileVars, semVars, pool, admitted>>

CheckOutput(r) ==  \* the Markdown file, which may be copied first, exists
  /\ pc[r] = "checking" /\ outDir[r] \in {"partial", "full"}
  /\ Conclude("success") /\ Move(r, "unlinking") /\ Plan(r, 200)
  /\ UNCHANGED <<envVars, fileVars, semVars, pool, admitted>>

CheckOutputFails(r) ==
  /\ pc[r] = "checking" /\ ("disk" \in Faults \/ outDir[r] # "full")
  /\ Conclude("error") /\ Move(r, "unlinking") /\ Plan(r, 500)
  /\ UNCHANGED <<envVars, fileVars, semVars, pool, admitted>>

Unlink(r) ==
  /\ pc[r] = "unlinking"
  /\ tempFiles' = tempFiles \ {r}
  /\ Move(r, "answered")
  /\ UNCHANGED <<envVars, code, undeletable, outDir, semVars, pool, metricVars, admitted>>

UnlinkFails(r) ==  \* the exception replaces the response, the count stays
  /\ "disk" \in Faults /\ pc[r] = "unlinking"
  /\ undeletable' = undeletable \cup {r}
  /\ Move(r, "answered") /\ Plan(r, 500)
  /\ UNCHANGED <<envVars, tempFiles, outDir, semVars, pool, metricVars, admitted>>

-----------------------------------------------------------------------------
MemoryChanges ==
  /\ mem' \in MemLevels \ {mem}
  /\ UNCHANGED <<up, restarts, pc, code, fileVars, semVars, pool, metricVars, admitted>>

(* Everything the process kept in memory is gone; its files are not. *)
Forget ==
  /\ up' = FALSE
  /\ limit' = 0 /\ value' = 0 /\ waiters' = <<>>
  /\ pool' = "none"
  /\ active' = 0 /\ totals' = [success |-> 0, error |-> 0] /\ samples' = 0
  /\ admitted' = {}
  /\ UNCHANGED <<restarts, mem, fileVars>>

(* uvicorn waits for the open requests, then runs shutdown_event. *)
Shutdown ==
  /\ up /\ InFlight = {}
  /\ Forget
  /\ UNCHANGED <<pc, code>>

Kill ==  \* the process and its workers disappear between two steps
  /\ "kill" \in Faults /\ up /\ InFlight # {}
  /\ Forget
  /\ pc' = [r \in Requests |-> IF r \in InFlight THEN "lost" ELSE pc[r]]
  /\ code' = [r \in Requests |-> IF r \in InFlight THEN 0 ELSE code[r]]

Restart ==  \* create_app: nothing in UPLOAD_DIR is looked at
  /\ ~up /\ restarts < MaxRestarts
  /\ up' = TRUE /\ restarts' = restarts + 1
  /\ UNCHANGED <<mem, pc, code, fileVars, semVars, pool, metricVars, admitted>>

Stopped == ~up /\ restarts = MaxRestarts /\ UNCHANGED vars

Upload(r) ==
  \/ CreateTemp(r) \/ CreateTempFails(r)
  \/ WriteTemp(r) \/ \E c \in {413, 500} : WriteTempFails(r, c)
  \/ DiscardTemp(r) \/ DiscardTempFails(r)

Schedule(r) ==
  \/ MakeOutputDirFails(r) \/ MakeOutputDirAndQueue(r)
  \/ \E lim \in Limits : MakeOutputDirAndSubmit(r, lim)
  \/ MakeOutputDirAndFail(r) \/ ResumeAndSubmit(r) \/ ResumeAndFail(r)

Work(r) ==
  \/ WorkerTakes(r) \/ WorkerConverts(r) \/ WorkerPublishes(r)
  \/ WorkerGivesUp(r) \/ WorkerRaises(r)

Answer(r) ==
  \/ CollectPath(r) \/ CollectFailure(r)
  \/ CheckOutput(r) \/ CheckOutputFails(r)
  \/ Unlink(r) \/ UnlinkFails(r)

Progress(r) == Upload(r) \/ Schedule(r) \/ Work(r) \/ Answer(r)

Arrive(r) == Accept(r) \/ \E c \in {400, 413} : Refuse(r, c)

Next ==
  \/ \E r \in Requests : Arrive(r) \/ Progress(r)
  \/ WorkerDies \/ MemoryChanges \/ Shutdown \/ Kill \/ Restart \/ Stopped

Spec == Init /\ [][Next]_vars

(* The loop runs every ready handler, thread-pool calls and conversions end *)
(* (no time limit is set on either), and the pool feeds idle workers.        *)
FairSpec == Spec /\ \A r \in Requests : WF_vars(Progress(r))

-----------------------------------------------------------------------------
TypeOK ==
  /\ up \in BOOLEAN /\ restarts \in Nat /\ mem \in MemLevels
  /\ pc \in [Requests -> Stages] /\ code \in [Requests -> Codes]
  /\ tempFiles \subseteq Requests /\ undeletable \subseteq Requests
  /\ outDir \in [Requests -> {"absent", "empty", "partial", "full"}]
  /\ limit \in Nat /\ value \in Nat /\ waiters \in Seq(Requests)
  /\ pool \in {"none", "up", "broken"}
  /\ active \in Nat /\ totals \in [{"success", "error"} -> Nat] /\ samples \in Nat
  /\ admitted \subseteq Requests

(* Every permit of the semaphore is either free or held by exactly one      *)
(* request between its wake-up and the moment its handler leaves the block, *)
(* on every path out of it (server.py, _run_multiprocess_conversion), and   *)
(* none is given out that there is not: with memory for no conversion at    *)
(* all one still runs, and with memory for any number no more than the      *)
(* workers, or two, do (get_dynamic_semaphore_limit).                       *)
PermitsConserved ==
  /\ value + Cardinality(At(Holding)) = limit
  /\ value >= 0 /\ limit <= Larger(2, MaxWorkers)

(* A permit is never idle beside a queued request unless a request already  *)
(* woken is about to resume and wake the next one.                          *)
NoLostWakeup == waiters # <<>> /\ value > 0 => At({"granted"}) # {}

(* The queue holds exactly the requests whose handler waits in acquire.     *)
QueueIsExact ==
  /\ \A i, j \in 1..Len(waiters) : waiters[i] = waiters[j] => i = j
  /\ {waiters[i] : i \in 1..Len(waiters)} = At({"waiting"})

(* Whatever failed on the way, an upload left in UPLOAD_DIR belongs to an   *)
(* open request, to one whose unlink raised, or to one the process took     *)
(* down with it (server.py, _save_upload_temp and convert_file's finally).  *)
UploadsReclaimed == tempFiles \subseteq InFlight \cup undeletable \cup At({"lost"})

(* The clean-up never removes an upload that a worker has yet to read.      *)
InputOutlivesTask ==
  At({"mkdir", "waiting", "granted", "queued", "converting"}) \subseteq tempFiles

(* The registry agrees with the requests: every request let past validation *)
(* is counted once, in the gauge while it is open and in one total after,   *)
(* and a success total without a 200 answer is one whose unlink raised.     *)
MetricsAgree ==
  LET ok == {r \in admitted : code[r] = 200}
  IN  /\ active = Cardinality(InFlight \ At({"unlinking"}))
      /\ active + totals.success + totals.error = Cardinality(admitted)
      /\ Cardinality(ok) <= totals.success
      /\ totals.success <= Cardinality(ok \cup (admitted \cap undeletable))

(* A client told 200 finds the complete output, never a partial copy.       *)
SuccessIsPublished == \A r \in Requests : code[r] = 200 => outDir[r] = "full"

(* Admission is first come, first served: a waiter is woken only with all   *)
(* that queued before it, and no newcomer takes a permit past the queue.    *)
AdmissionIsFifo ==
  [][/\ \A i, j \in 1..Len(waiters) :
          i < j /\ pc'[waiters[j]] = "granted" => pc'[waiters[i]] = "granted"
     /\ \A r \in Requests :
          pc[r] = "mkdir" /\ pc'[r] = "queued" => At({"waiting", "granted"}) = {}]_vars

(* Every request let past validation is answered, even behind a pool that   *)
(* broke or a semaphore that is exhausted, unless the process is killed.    *)
EveryRequestAnswered ==
  \A r \in Requests : pc[r] = "creating" ~> pc[r] \in {"answered", "lost"}
=============================================================================
